---------------------------- MODULE Spec2Model ----------------------------
(***************************************************************************)
(* LiteBuild: planner and executor of the incremental build engine         *)
(* (src/LiteBuild/build_engine.py).                                        *)
(*                                                                         *)
(* A workflow of three steps A, B, C is planned against the persisted      *)
(* build state and the filesystem (BuildPlanner.plan_build) and executed   *)
(* generation by generation with a pool of worker processes                *)
(* (BuildExecutor.execute_plan, BuildExecutor._run_single_command).        *)
(***************************************************************************)
EXTENDS Integers, Sequences, FiniteSets, TLC

(***************************************************************************)
(* Bounds of the model.                                                    *)
(***************************************************************************)
\* largest value of the filesystem clock (modification times are 0..MaxClock)
MaxClock == 3
\* number of BuildEngine.execute calls in one behaviour
MaxBuilds == 2
\* number of CPUs: the pool size when MAX_WORKERS is not configured
CpuCount == 2

(***************************************************************************)
(* UpdateCode (IntEnum).                                                   *)
(***************************************************************************)
UP_TO_DATE == 0
MISSING_OUTPUT == 1
NOT_TRACKED == 2
COMMAND_CHANGED == 3
INPUTS_CHANGED == 4
PARAMS_CHANGED == 5
NEWER_INPUT == 6
MISSING_INPUT == 7
STALE_TARGET == 8

(***************************************************************************)
(* The workflow: step names in the insertion order of the WORKFLOW         *)
(* mapping, the files, and the resolved OUTPUT path of every step.         *)
(***************************************************************************)
NodeOrder == <<"A", "B", "C">>
Nodes == {"A", "B", "C"}
Sources == {"in/x", "in/y"}
OutputOf == [A |-> "out/a", B |-> "out/b", C |-> "out/c"]
Outputs == {OutputOf[n] : n \in Nodes}
Files == Sources \cup Outputs
\* os.path.basename of every path of the model
Basename ==
    [f \in Files |->
        CASE f = "in/x" -> "x" [] f = "in/y" -> "y" [] f = "out/a" -> "a"
          [] f = "out/b" -> "b" [] OTHER -> "c"]
\* final_step_name = None: the whole graph is built
NoFinal == "None"
\* GENERAL.MAX_WORKERS absent: config.get("MAX_WORKERS") is None
MAX_WORKERS_UNSET == -1

Range(s) == {s[i] : i \in 1..Len(s)}

RECURSIVE Flatten(_)
Flatten(ss) == IF ss = <<>> THEN <<>> ELSE Head(ss) \o Flatten(Tail(ss))

IndexOf(s, e) == CHOOSE i \in 1..Len(s) : s[i] = e

(***************************************************************************)
(* Dependency graph: an edge from every name in a step's REQUIRES to the   *)
(* step; the execution subgraph is the final step and its ancestors.  A    *)
(* graph is a record of its nodes and its edges.                           *)
(***************************************************************************)
Edges(c) == {<<u, v>> \in (Nodes \cup {"Z"}) \X Nodes : u \in Range(c.requires[v])}

RECURSIVE ReachFrom(_, _)
ReachFrom(E, S) ==
    LET T == S \cup {e[2] : e \in {d \in E : d[1] \in S}}
    IN IF T = S THEN S ELSE ReachFrom(E, T)

\* nx.descendants: every node reachable from n by at least one edge
Descendants(g, n) == ReachFrom(g.edges, {e[2] : e \in {d \in g.edges : d[1] = n}})

\* nx.ancestors
Ancestors(g, n) == {u \in g.nodes : n \in Descendants(g, u)}

WorkflowGraph(c) == [nodes |-> Nodes, edges |-> Edges(c)]

HasCycle(c) == \E n \in Nodes : n \in Descendants(WorkflowGraph(c), n)

UnknownRequires(c) == \E e \in Edges(c) : e[1] \notin Nodes

UnknownFinal(c) == c.final # NoFinal /\ c.final \notin Nodes

\* DependencyGraph(...).get_execution_subgraph(final) raises
GraphError(c) == UnknownRequires(c) \/ HasCycle(c) \/ UnknownFinal(c)

\* get_execution_subgraph(final): the final step and its ancestors, or the
\* whole graph when no final step is given
ExecutionSubgraph(c) ==
    LET w == WorkflowGraph(c)
        keep == IF c.final = NoFinal THEN Nodes
                ELSE {c.final} \cup Ancestors(w, c.final)
    IN [nodes |-> keep,
        edges |-> {e \in w.edges : e[1] \in keep /\ e[2] \in keep}]

\* G.neighbors(u): successors of u in the order their edges were added
Successors(g, u) == SelectSeq(NodeOrder, LAMBDA v : <<u, v>> \in g.edges)

InDegree(g, v) == Cardinality({e \in g.edges : e[2] = v})

(***************************************************************************)
(* nx.topological_generations: Kahn's algorithm by layers.  A child is     *)
(* appended to the next layer when its in-degree count reaches zero.       *)
(***************************************************************************)
RECURSIVE VisitChildren(_, _, _)
VisitChildren(children, indeg, acc) ==
    IF children = <<>> THEN [indeg |-> indeg, acc |-> acc]
    ELSE LET ch == Head(children)
             d == indeg[ch] - 1
         IN VisitChildren(Tail(children), [indeg EXCEPT ![ch] = d],
                          IF d = 0 THEN Append(acc, ch) ELSE acc)

RECURSIVE VisitLayer(_, _, _, _)
VisitLayer(g, layer, indeg, acc) ==
    IF layer = <<>> THEN [indeg |-> indeg, acc |-> acc]
    ELSE LET r == VisitChildren(Successors(g, Head(layer)), indeg, acc)
         IN VisitLayer(g, Tail(layer), r.indeg, r.acc)

RECURSIVE Layers(_, _, _)
Layers(g, layer, indeg) ==
    IF layer = <<>> THEN <<>>
    ELSE LET r == VisitLayer(g, layer, indeg, <<>>)
         IN <<layer>> \o Layers(g, r.acc, r.indeg)

TopologicalGenerations(g) ==
    LET indeg == [v \in Nodes |-> InDegree(g, v)]
    IN Layers(g, SelectSeq(NodeOrder, LAMBDA v : v \in g.nodes /\ indeg[v] = 0),
              indeg)

\* the nodes in the insertion order of the WORKFLOW mapping
InsertionOrderSort(g) == SelectSeq(NodeOrder, LAMBDA v : v \in g.nodes)

\* nx.topological_sort: the generations, one after the other
TopologicalSort(g) == Flatten(TopologicalGenerations(g))

(***************************************************************************)
(* Command generation (CommandGenerator.generate_for_node), as far as the  *)
(* planner and the executor use it: the resolved command of a step, and    *)
(* whether generation raises.                                              *)
(***************************************************************************)
\* "{OUTPUT}" not in command_template: ValueError
GenerateRaises(c, n) == ~c.has_output_ph[n]

\* command_map[node_name], with cmd['node_name'] = node
Command(c, n) ==
    [node_name |-> n, output |-> OutputOf[n], input_files |-> c.inputs[n],
     hashes |-> c.hashes[n]]

\* a planner that defers the errors of command generation (a variant PlanRaises
\* is compared with)
PlanRaisesGraphOnly(c) == GraphError(c)

\* _generate_command_map_and_graph raises: graph construction fails, or
\* generate_for_node fails for a node of the execution subgraph
PlanRaises(c) ==
    IF GraphError(c) THEN TRUE
    ELSE \E n \in ExecutionSubgraph(c).nodes : GenerateRaises(c, n)

(***************************************************************************)
(* BuildPlanner._is_step_outdated.  state is the loaded build state (a     *)
(* mapping from output path to entry), ex and mt the filesystem.           *)
(***************************************************************************)
Verdict(code, context) == [code |-> code, context |-> context]

\* a loop that looks for a missing input among all inputs before it compares
\* modification times (a variant CheckInputs is compared with)
CheckInputsMissingFirst(inputs, i, last_build_mtime, ex, mt) ==
    IF \E j \in i..Len(inputs) : ~ex[inputs[j]]
    THEN Verdict(MISSING_INPUT,
                 Basename[inputs[CHOOSE j \in i..Len(inputs) :
                     ~ex[inputs[j]] /\ \A k \in i..(j - 1) : ex[inputs[k]]]])
    ELSE IF \E j \in i..Len(inputs) : mt[inputs[j]] > last_build_mtime
    THEN Verdict(NEWER_INPUT,
                 Basename[inputs[CHOOSE j \in i..Len(inputs) :
                     /\ mt[inputs[j]] > last_build_mtime
                     /\ \A k \in i..(j - 1) : mt[inputs[k]] <= last_build_mtime]])
    ELSE Verdict(UP_TO_DATE, "")

\* a loop that takes an input as old as the last build for newer (a variant
\* CheckInputs is compared with)
RECURSIVE CheckInputsNotOlder(_, _, _, _, _)
CheckInputsNotOlder(inputs, i, last_build_mtime, ex, mt) ==
    IF i > Len(inputs) THEN Verdict(UP_TO_DATE, "")
    ELSE IF ~ex[inputs[i]] THEN Verdict(MISSING_INPUT, Basename[inputs[i]])
    ELSE IF mt[inputs[i]] >= last_build_mtime
         THEN Verdict(NEWER_INPUT, Basename[inputs[i]])
    ELSE CheckInputsNotOlder(inputs, i + 1, last_build_mtime, ex, mt)

\* the loop over command['input_files'], from the i-th input on
RECURSIVE CheckInputs(_, _, _, _, _)
CheckInputs(inputs, i, last_build_mtime, ex, mt) ==
    IF i > Len(inputs) THEN Verdict(UP_TO_DATE, "")
    ELSE IF ~ex[inputs[i]] THEN Verdict(MISSING_INPUT, Basename[inputs[i]])
    ELSE IF mt[inputs[i]] > last_build_mtime
         THEN Verdict(NEWER_INPUT, Basename[inputs[i]])
    ELSE CheckInputs(inputs, i + 1, last_build_mtime, ex, mt)

IsStepOutdated(command, state, ex, mt) ==
    LET output_path == command.output
    IN IF ~ex[output_path] THEN Verdict(MISSING_OUTPUT, Basename[output_path])
       ELSE IF output_path \notin DOMAIN state
            THEN Verdict(NOT_TRACKED, Basename[output_path])
       ELSE LET stored == state[output_path]
            IN IF stored.hashes.command # command.hashes.command
                   THEN Verdict(COMMAND_CHANGED, "")
               ELSE IF stored.hashes.inputs # command.hashes.inputs
                   THEN Verdict(INPUTS_CHANGED, "")
               ELSE IF stored.hashes.params # command.hashes.params
                   THEN Verdict(PARAMS_CHANGED, "")
               ELSE CheckInputs(command.input_files, 1, stored.mtime, ex, mt)

(***************************************************************************)
(* BuildPlanner.plan_build.                                                *)
(***************************************************************************)
\* initially_outdated: the verdict of every node that is not UP_TO_DATE
InitiallyOutdated(c, g, state, ex, mt) ==
    LET v == [n \in g.nodes |-> IsStepOutdated(Command(c, n), state, ex, mt)]
    IN [n \in {m \in g.nodes : v[m].code # UP_TO_DATE} |-> v[n]]

\* a propagation to the direct successors only (a variant AllNodesToRun is
\* compared with)
AllNodesToRunDirect(g, initially_outdated) ==
    (DOMAIN initially_outdated)
        \cup {e[2] : e \in {d \in g.edges : d[1] \in DOMAIN initially_outdated}}

\* all_nodes_to_run
AllNodesToRun(g, initially_outdated) ==
    (DOMAIN initially_outdated)
        \cup UNION {Descendants(g, n) : n \in DOMAIN initially_outdated}

BuildStep(node_name, command, update_code, context) ==
    [node_name |-> node_name, command |-> command, update_code |-> update_code,
     context |-> context]

\* a BuildStep for node n that carries STALE_TARGET whatever made it stale (a
\* variant RunStep is compared with)
RunStepStaleOnly(c, initially_outdated, n) ==
    BuildStep(n, Command(c, n), STALE_TARGET, "")

\* the BuildStep appended to steps_to_run for node n
RunStep(c, initially_outdated, n) ==
    LET v == IF n \in DOMAIN initially_outdated THEN initially_outdated[n]
             ELSE Verdict(STALE_TARGET, "")
    IN BuildStep(n, Command(c, n), v.code, v.context)

\* the BuildStep appended to steps_to_skip for node n
SkipStep(c, n) == BuildStep(n, Command(c, n), UP_TO_DATE, "")

\* steps_to_run in the insertion order of the workflow (a variant StepsToRun is
\* compared with)
StepsToRunInsertionOrder(c, build_order, initially_outdated, all_nodes_to_run) ==
    LET run == SelectSeq(NodeOrder, LAMBDA n : n \in all_nodes_to_run)
    IN [i \in 1..Len(run) |-> RunStep(c, initially_outdated, run[i])]

\* steps_to_run: the nodes of all_nodes_to_run, in build order
StepsToRun(c, build_order, initially_outdated, all_nodes_to_run) ==
    LET run == SelectSeq(build_order, LAMBDA n : n \in all_nodes_to_run)
    IN [i \in 1..Len(run) |-> RunStep(c, initially_outdated, run[i])]

\* steps_to_skip: the other nodes, in build order
StepsToSkip(c, build_order, all_nodes_to_run) ==
    LET skip == SelectSeq(build_order, LAMBDA n : n \notin all_nodes_to_run)
    IN [i \in 1..Len(skip) |-> SkipStep(c, skip[i])]

\* BuildPlan(steps_to_run, steps_to_skip, command_map, execution_graph)
BuildPlan(c, state, ex, mt) ==
    LET g == ExecutionSubgraph(c)
        generations == TopologicalGenerations(g)
        build_order == Flatten(generations)
        initially_outdated == InitiallyOutdated(c, g, state, ex, mt)
        all_nodes_to_run == AllNodesToRun(g, initially_outdated)
    IN [steps_to_run |->
            StepsToRun(c, build_order, initially_outdated, all_nodes_to_run),
        steps_to_skip |-> StepsToSkip(c, build_order, all_nodes_to_run),
        command_map |-> [n \in g.nodes |-> Command(c, n)],
        execution_graph |->
            [nodes |-> g.nodes, edges |-> g.edges, generations |-> generations]]

NoPlan == [steps_to_run |-> <<>>, steps_to_skip |-> <<>>,
           command_map |-> <<>>,
           execution_graph |-> [nodes |-> {}, edges |-> {}, generations |-> <<>>]]

(***************************************************************************)
(* BuildStateManager: the state file holds a mapping from output path to   *)
(* {hashes, mtime}; a missing or malformed file loads as the empty mapping. *)
(***************************************************************************)
EmptyState == [p \in {} |-> 0]

Hashes(command, inputs, params) ==
    [command |-> command, inputs |-> inputs, params |-> params]

StateEntry(hashes, t) == [hashes |-> hashes, mtime |-> t]

StateFile(kind, content) == [kind |-> kind, content |-> content]

\* load_state on a state file of any kind: "missing" (no file), "unreadable"
\* (open raises IOError), "malformed" (text that is not JSON: json.load raises
\* JSONDecodeError), "undecodable" (bytes that are not text: reading raises
\* UnicodeDecodeError, which the except clause does not name), "not_object"
\* (a JSON document other than an object: json.load returns its value) and
\* "ok" (a JSON object).  A value that is not a mapping is the tuple of the
\* document's text.
LoadStateOutcome(file) ==
    CASE file.kind \in {"missing", "unreadable", "malformed"} ->
            [raised |-> FALSE, mapping |-> TRUE, value |-> EmptyState]
      [] file.kind = "undecodable" ->
            [raised |-> TRUE, mapping |-> FALSE, value |-> EmptyState]
      [] file.kind = "not_object" ->
            [raised |-> FALSE, mapping |-> FALSE, value |-> <<file.content>>]
      [] OTHER -> [raised |-> FALSE, mapping |-> TRUE, value |-> file.content]

\* load_state: {} when the file is missing or cannot be decoded
LoadState(file) == LoadStateOutcome(file).value

\* build_state = {output_path: ...}: the mapping is replaced (a variant SetEntry is
\* compared with)
SetEntryAlone(state, path, entry) == [p \in {path} |-> entry]

\* self.build_state[output_path] = {"hashes": ..., "mtime": ...}
SetEntry(state, path, entry) ==
    [p \in (DOMAIN state) \cup {path} |-> IF p = path THEN entry ELSE state[p]]

(***************************************************************************)
(* Workflows and configurations of the model.                              *)
(***************************************************************************)
Workflow(requires, inputs) == [requires |-> requires, inputs |-> inputs]

\* A -> B -> C
WfChain ==
    Workflow([A |-> <<>>, B |-> <<"A">>, C |-> <<"B">>],
             [A |-> <<"in/x", "in/y">>, B |-> <<"out/a">>, C |-> <<"out/b">>])
\* A and B independent, C requires both
WfJoin ==
    Workflow([A |-> <<>>, B |-> <<>>, C |-> <<"A", "B">>],
             [A |-> <<"in/x">>, B |-> <<"in/y">>, C |-> <<"out/a", "out/b">>])
\* B and C both require A
WfFan ==
    Workflow([A |-> <<>>, B |-> <<"A">>, C |-> <<"A">>],
             [A |-> <<"in/x", "in/y">>, B |-> <<"out/a">>, C |-> <<"out/a", "in/y">>])
\* A requires C, declared after it: the topological order is not the insertion order
WfBack ==
    Workflow([A |-> <<"C">>, B |-> <<>>, C |-> <<>>],
             [A |-> <<"out/c">>, B |-> <<"in/x">>, C |-> <<"in/y">>])
\* a cycle A -> B -> A
WfCycle ==
    Workflow([A |-> <<"B">>, B |-> <<"A">>, C |-> <<>>],
             [A |-> <<"out/b">>, B |-> <<"out/a">>, C |-> <<"in/x">>])
\* A requires a step that is not in the workflow
WfUnknown ==
    Workflow([A |-> <<"Z">>, B |-> <<"A">>, C |-> <<>>],
             [A |-> <<"in/x">>, B |-> <<"out/a">>, C |-> <<"in/y">>])

Config(wf, final, max_workers, bad) ==
    [requires |-> wf.requires, inputs |-> wf.inputs, final |-> final,
     max_workers |-> max_workers,
     has_output_ph |-> [n \in Nodes |-> n \notin bad],
     hashes |-> [n \in Nodes |-> Hashes(1, 1, 1)]]

(***************************************************************************)
(* Command generation in full (command_generator.py).  A template is a     *)
(* sequence of tokens: literal text, a braced field {n}, or an escaped     *)
(* field {{n}}; str.format_map is computed token by token.                 *)
(***************************************************************************)
Lit(s) == [k |-> "lit", n |-> s]
Ph(s) == [k |-> "ph", n |-> s]
Esc(s) == [k |-> "esc", n |-> s]

\* the JSON values _get_hash is applied to
Str(text) == [type |-> "str", items |-> text]
List(xs) == [type |-> "list", items |-> xs]
Dict(pairs) == [type |-> "dict", items |-> pairs]

\* the values of a PARAMETERS mapping: a string, a list of strings (List), true,
\* false and null; items is the sequence of the texts of the value
Value(text) == [type |-> "str", items |-> <<text>>]
True == [type |-> "true", items |-> <<>>]
False == [type |-> "false", items |-> <<>>]
None == [type |-> "null", items |-> <<>>]

\* names that start with an uppercase letter, names that start with a lowercase one
UppercaseNames ==
    {"OUTPUT", "INPUTS", "PARAMETERS", "POSITIONAL_FILENAMES", "PARAMS", "DIR", "SUB",
     "REGION", "LOOP", "MY-VAR", "D1", "D2", "D3", "D4", "D5", "D6", "D7", "K", "G"}
LowercaseNames == {"awk_var", "profile_name", "lower_key", "print"}

\* the names the pattern [A-Z][A-Za-z0-9_:,\.&]* matches: "-" is not in its class
StrictPassNames == UppercaseNames \ {"MY-VAR"}

\* the order of str comparison on the texts and names of the model
Collation ==
    <<" ", "'", "''", ", ", "-", "--", "-i", "/", "/n", "/y", "1", "2", "9", ">", "D1", "D2",
      "D3", "D4", "D5", "D6", "D7", "DIR", "False", "G", "INPUTS", "INPUTS[0]",
      "INPUTS[1]", "K", "LOOP", "MY-VAR", "None", "OUTPUT", "PARAMETERS", "PARAMS",
      "POSITIONAL_FILENAMES", "REGION", "REQUIRES[0]", "REQUIRES[1]", "SUB", "True", "[",
      "]", "a", "a b", "awk", "awk_var", "b", "build", "c", "cmd", "end", "g", "gen",
      "in y", "in/", "in/x", "in/y", "k", "lower_key", "out/", "out/a", "out/b", "out/c",
      "out/n", "p", "p q", "pa", "pb", "print", "prof", "profile_name", "r", "s", "t", "v",
      "w", "x">>

StrLess(x, y) == IndexOf(Collation, x) < IndexOf(Collation, y)

\* "{" sorts after every letter: literal text before a brace
TokenLess(a, b) ==
    IF a.k = b.k THEN StrLess(a.n, b.n) ELSE a.k = "lit"

RECURSIVE TextLess(_, _)
TextLess(a, b) ==
    IF b = <<>> THEN FALSE
    ELSE IF a = <<>> THEN TRUE
    ELSE IF Head(a) = Head(b) THEN TextLess(Tail(a), Tail(b))
    ELSE TokenLess(Head(a), Head(b))

\* sorted(list of str)
Sorted(xs) == SortSeq(xs, TextLess)

\* range(5) of the two expansion loops
ExpansionPasses == 5

\* str.format_map(SafeFormatter(ctx)): {{n}} becomes {n}, a field of the context is
\* replaced by its value, a missing field is written back as {n} (__missing__)
RECURSIVE FormatMap(_, _)
FormatMap(text, ctx) ==
    IF text = <<>> THEN <<>>
    ELSE LET tok == Head(text)
             out == IF tok.k = "esc" THEN <<Ph(tok.n)>>
                    ELSE IF tok.k = "ph" /\ tok.n \in DOMAIN ctx THEN ctx[tok.n]
                    ELSE <<tok>>
         IN out \o FormatMap(Tail(text), ctx)

\* the loop of _deep_template: five passes
RECURSIVE Passes(_, _, _)
Passes(text, ctx, i) ==
    IF i = 0 THEN text ELSE Passes(FormatMap(text, ctx), ctx, i - 1)

\* a loop of one pass (a variant PassesUntilStable is compared with)
PassesOnce(text, ctx, i) == IF i = 0 THEN text ELSE FormatMap(text, ctx)

\* the loop of _build_command_string: up to five passes, break when nothing changes
RECURSIVE PassesUntilStable(_, _, _)
PassesUntilStable(text, ctx, i) ==
    IF i = 0 THEN text
    ELSE LET resolved == FormatMap(text, ctx)
         IN IF resolved = text THEN resolved
            ELSE PassesUntilStable(resolved, ctx, i - 1)

FirstIndex(S) == CHOOSE i \in S : \A j \in S : i <= j

\* the key of the KeyError of str.format_map(context), "" when every field is defined
MissingKey(text, ctx) ==
    LET idx == {i \in 1..Len(text) : text[i].k = "ph" /\ text[i].n \notin DOMAIN ctx}
    IN IF idx = {} THEN "" ELSE text[FirstIndex(idx)].n

\* _deep_template on a string: the passes, then the final validation with the plain
\* context, which raises for any field that is not a key of the context
DeepTemplate(text, ctx) ==
    LET Validated(templated_string, missing_key) ==
            IF missing_key # ""
            THEN [raised |-> TRUE, token |-> missing_key, value |-> <<>>]
            ELSE [raised |-> FALSE, token |-> "",
                  value |-> FormatMap(templated_string, ctx)]
        Templated(templated_string) ==
            Validated(templated_string, MissingKey(templated_string, ctx))
    IN Templated(Passes(text, ctx, ExpansionPasses))

\* _deep_template on a list: the items in order, the first error is raised
DeepTemplateList(items, ctx) ==
    LET Collected(r) ==
            LET bad == {i \in 1..Len(items) : r[i].raised}
            IN IF bad # {}
               THEN [raised |-> TRUE, token |-> r[FirstIndex(bad)].token, value |-> <<>>]
               ELSE [raised |-> FALSE, token |-> "",
                     value |-> [i \in 1..Len(items) |-> r[i].value]]
    IN Collected([i \in 1..Len(items) |-> DeepTemplate(items[i], ctx)])

\* _deep_template on a value of a mapping: the texts of a string or of a list are
\* templated, any other value (true, false, null) is returned as it is
DeepTemplateValue(value, ctx) ==
    LET Typed(r) ==
            IF r.raised THEN [raised |-> TRUE, token |-> r.token, value |-> value]
            ELSE [raised |-> FALSE, token |-> "",
                  value |-> [type |-> value.type, items |-> r.value]]
    IN Typed(DeepTemplateList(value.items, ctx))

\* _deep_template on a dict: the values in the order of the keys
DeepTemplateDict(pairs, ctx) ==
    LET Collected(r) ==
            LET bad == {i \in 1..Len(pairs) : r[i].raised}
            IN IF bad # {}
               THEN [raised |-> TRUE, token |-> r[FirstIndex(bad)].token, value |-> <<>>]
               ELSE [raised |-> FALSE, token |-> "",
                     value |-> [i \in 1..Len(pairs) |-> <<pairs[i][1], r[i].value>>]]
    IN Collected([i \in 1..Len(pairs) |-> DeepTemplateValue(pairs[i][2], ctx)])

DictKeys(d) == {d[i][1] : i \in 1..Len(d)}

\* d[key], for a key of d
DictGet(d, key) == d[CHOOSE i \in 1..Len(d) : d[i][1] = key][2]

\* {**d1, **d2}: a key of d1 keeps its place and takes the value of d2
DictUpdate(d, kv) ==
    IF kv[1] \in DictKeys(d)
    THEN [i \in 1..Len(d) |-> IF d[i][1] = kv[1] THEN kv ELSE d[i]]
    ELSE Append(d, kv)

RECURSIVE DictMerge(_, _)
DictMerge(d1, d2) ==
    IF d2 = <<>> THEN d1 ELSE DictMerge(DictUpdate(d1, Head(d2)), Tail(d2))

\* {**workflow_params, **profile_params, **general_params}: the layers the other way round
MergeParametersReversed(node_data, general, profile, ctx) ==
    DeepTemplateDict(DictMerge(DictMerge(node_data.PARAMETERS, profile.PARAMETERS),
                               general.PARAMETERS), ctx)

\* _merge_parameters: {**general_params, **profile_params, **workflow_params}, the
\* per-rule PARAMETERS of GENERAL and of the profile being those of the step's rule
MergeParameters(node_data, general, profile, ctx) ==
    DeepTemplateDict(DictMerge(DictMerge(general.PARAMETERS, profile.PARAMETERS),
                               node_data.PARAMETERS), ctx)

\* the index of a template that is exactly {REQUIRES[i]}, -1 for any other template
RequiresIndex(tmpl) ==
    IF tmpl = <<Ph("REQUIRES[0]")>> THEN 0
    ELSE IF tmpl = <<Ph("REQUIRES[1]")>> THEN 1
    ELSE -1

\* one item of the loop of _resolve_all_inputs; resolved_outputs[dep_name] raises
\* KeyError (kind "key") when the map has no entry for the required step
ResolveInput(tmpl, node_data, ctx, resolved_outputs) ==
    LET Templated(r) ==
            [raised |-> r.raised, kind |-> IF r.raised THEN "undefined" ELSE "none",
             token |-> r.token, value |-> r.value]
        Required(dep_index) ==
            IF dep_index >= Len(node_data.REQUIRES)
            THEN [raised |-> TRUE, kind |-> "requires_range", token |-> tmpl[1].n,
                  value |-> <<>>]
            ELSE LET dep_name == node_data.REQUIRES[dep_index + 1]
                 IN IF dep_name \notin DictKeys(resolved_outputs)
                    THEN [raised |-> TRUE, kind |-> "key", token |-> dep_name,
                          value |-> <<>>]
                    ELSE [raised |-> FALSE, kind |-> "none", token |-> "",
                          value |-> DictGet(resolved_outputs, dep_name)]
    IN IF RequiresIndex(tmpl) >= 0 THEN Required(RequiresIndex(tmpl))
       ELSE Templated(DeepTemplate(tmpl, ctx))

\* _resolve_all_inputs
ResolveAllInputs(node_data, ctx, resolved_outputs) ==
    LET input_templates == node_data.INPUTS
        Collected(r) ==
            LET bad == {i \in 1..Len(input_templates) : r[i].raised}
            IN IF bad # {}
               THEN [raised |-> TRUE, kind |-> r[FirstIndex(bad)].kind,
                     token |-> r[FirstIndex(bad)].token, value |-> <<>>]
               ELSE [raised |-> FALSE, kind |-> "none", token |-> "",
                     value |-> [i \in 1..Len(input_templates) |-> r[i].value]]
    IN Collected([i \in 1..Len(input_templates) |->
                     ResolveInput(input_templates[i], node_data, ctx, resolved_outputs)])

\* "{n}" in template (a substring test: the braces of {{n}} contain it too)
Contains(template, name) ==
    \E i \in 1..Len(template) : template[i].k \in {"ph", "esc"} /\ template[i].n = name

\* the literal texts of the model with a character outside [A-Za-z0-9_@%+=:,./-]
UnsafeLiterals == {" ", "'", "''", ", ", ">", "[", "]", "a b", "in y", "p q"}

\* shlex.quote: '' for the empty text, single quotes around a text with a character
\* that is not safe (a brace, a space); no text of the model that is quoted holds a
\* single quote
Quote(text) ==
    IF text = <<>> THEN <<Lit("''")>>
    ELSE IF \E i \in 1..Len(text) : text[i].k # "lit" \/ text[i].n \in UnsafeLiterals
    THEN <<Lit("'")>> \o text \o <<Lit("'")>>
    ELSE text

\* " ".join(texts)
RECURSIVE Join(_)
Join(texts) ==
    IF texts = <<>> THEN <<>>
    ELSE IF Len(texts) = 1 THEN Head(texts)
    ELSE Head(texts) \o <<Lit(" ")>> \o Join(Tail(texts))

\* the items of str(list of str): 'x', 'y'
RECURSIVE ReprItems(_)
ReprItems(xs) ==
    IF xs = <<>> THEN <<>>
    ELSE <<Lit("'")>> \o Head(xs) \o <<Lit("'")>>
             \o (IF Len(xs) = 1 THEN <<>> ELSE <<Lit(", ")>> \o ReprItems(Tail(xs)))

\* str(list of str)
ReprList(xs) == <<Lit("[")>> \o ReprItems(xs) \o <<Lit("]")>>

\* str(value) of a value of a mapping
StrOf(value) ==
    CASE value.type = "str" -> value.items[1]
      [] value.type = "list" -> ReprList(value.items)
      [] value.type = "true" -> <<Lit("True")>>
      [] value.type = "false" -> <<Lit("False")>>
      [] OTHER -> <<Lit("None")>>

\* the body of the loop of _format_shell_params: what one key adds to flags
KeyFlags(key, value, dash_style, unquoted_params) ==
    LET flag == <<Lit(dash_style), Lit(key)>>
        Quoted(texts) == [i \in 1..Len(texts) |-> Quote(texts[i])]
    IN IF value.type = "null" THEN <<>>
       ELSE IF key \in unquoted_params THEN <<flag, StrOf(value)>>
       ELSE IF value.type = "true" THEN Quoted(<<flag>>)
       ELSE IF value.type = "false" THEN <<>>
       ELSE IF value.type = "list"
           THEN Quoted(Flatten([i \in 1..Len(value.items) |-> <<flag, value.items[i]>>]))
       ELSE Quoted(<<flag, StrOf(value)>>)

\* the list flags of _format_shell_params: the tokens of every key, in key order
Flags(params_dict, dash_style, unquoted_params) ==
    Flatten([i \in 1..Len(params_dict) |->
                KeyFlags(params_dict[i][1], params_dict[i][2], dash_style,
                         unquoted_params)])

\* _format_shell_params
FormatShellParams(params_dict, dash_style, unquoted_params) ==
    Join(Flags(params_dict, dash_style, unquoted_params))

\* _format_inputs_string; an INPUT_SWITCH_NAME that is absent or empty is ""
FormatInputsString(rule_data, inputs) ==
    LET style == rule_data.INPUT_STYLE
        quoted == rule_data.INPUT_QUOTED
        switch == rule_data.INPUT_SWITCH_NAME
        Styled(formatted_inputs) ==
            IF style = "positional"
            THEN [raised |-> FALSE, value |-> Join(formatted_inputs)]
            ELSE IF style = "switch"
                THEN IF switch = ""
                     THEN [raised |-> TRUE, value |-> <<>>]
                     ELSE [raised |-> FALSE,
                           value |-> Join(Flatten([i \in 1..Len(formatted_inputs) |->
                                            << <<Lit(switch)>>, formatted_inputs[i] >>]))]
            ELSE [raised |-> FALSE, value |-> <<>>]
    IN Styled([i \in 1..Len(inputs) |-> IF quoted THEN Quote(inputs[i]) ELSE inputs[i]])

\* str.replace('  ', ' '): every pair of spaces, left to right
RECURSIVE ReplaceDoubleSpace(_)
ReplaceDoubleSpace(text) ==
    IF Len(text) < 2 THEN text
    ELSE IF text[1] = Lit(" ") /\ text[2] = Lit(" ")
         THEN <<Lit(" ")>> \o ReplaceDoubleSpace(Tail(Tail(text)))
    ELSE <<Head(text)>> \o ReplaceDoubleSpace(Tail(text))

\* str.strip(): the spaces at both ends removed
RECURSIVE Strip(_)
Strip(text) ==
    IF text = <<>> THEN text
    ELSE IF Head(text) = Lit(" ") THEN Strip(Tail(text))
    ELSE IF text[Len(text)] = Lit(" ") THEN Strip(SubSeq(text, 1, Len(text) - 1))
    ELSE text

\* the fields {INPUTS[i]} of the model and their indexes
IndexedInputs == {"INPUTS[0]", "INPUTS[1]"}
InputIndex(name) == IF name = "INPUTS[0]" THEN 0 ELSE 1

\* re.search(r'{INPUTS\[\d+\]}', template)
HasIndexedInputs(template) ==
    \E i \in 1..Len(template) : template[i].k = "ph" /\ template[i].n \in IndexedInputs

\* re.sub(r'{INPUTS\[(\d+)\]}', resolve_input_index, template): every indexed field
\* becomes the quoted input, an index that is out of range raises
ResolveInputIndexes(template, inputs) ==
    LET idx == {i \in 1..Len(template) :
                   template[i].k = "ph" /\ template[i].n \in IndexedInputs}
        bad == {i \in idx : InputIndex(template[i].n) >= Len(inputs)}
    IN IF bad # {}
       THEN [raised |-> TRUE, token |-> template[FirstIndex(bad)].n, value |-> <<>>]
       ELSE [raised |-> FALSE, token |-> "",
             value |-> Flatten([i \in 1..Len(template) |->
                          IF i \in idx
                          THEN Quote(inputs[InputIndex(template[i].n) + 1])
                          ELSE <<template[i]>>])]

\* the branch of _build_command_string that renders {INPUTS} by the style of the rule
StyledBranch(template) == Contains(template, "INPUTS") /\ ~HasIndexedInputs(template)

\* positional_filenames_str of the branch taken
PositionalFilenamesStr(rule_data, positional_filenames) ==
    IF StyledBranch(rule_data.COMMAND) THEN <<>>
    ELSE Join(IF rule_data.UNQUOTED_POSITIONALS THEN positional_filenames
              ELSE [i \in 1..Len(positional_filenames) |-> Quote(positional_filenames[i])])

\* inputs_str of the branch taken
InputsStr(rule_data, inputs) ==
    IF StyledBranch(rule_data.COMMAND) THEN FormatInputsString(rule_data, inputs)
    ELSE [raised |-> FALSE, value |-> Join([i \in 1..Len(inputs) |-> Quote(inputs[i])])]

\* template_context; PARAMS is the mapping itself, whose text is that of its keys and
\* values in order
TemplateContext(inputs_str, output, params, params_str, positional_filenames_str, ctx) ==
    [n \in {"OUTPUT", "INPUTS", "PARAMS", "PARAMETERS", "POSITIONAL_FILENAMES"} |->
        CASE n = "OUTPUT" -> output
          [] n = "INPUTS" -> inputs_str
          [] n = "PARAMS" -> Flatten([i \in 1..Len(params) |->
                                         <<Lit(params[i][1])>> \o StrOf(params[i][2])])
          [] n = "PARAMETERS" -> params_str
          [] OTHER -> positional_filenames_str] @@ ctx

\* the command text after the iterated expansion
ResolvedCommand(template, template_context) ==
    ReplaceDoubleSpace(Strip(PassesUntilStable(template, template_context,
                                               ExpansionPasses)))

\* re.search(r'\{[A-Z][A-Za-z0-9_:,\.&]*\}'): a field of either case matches
UnresolvedTokenAnyCase(resolved_command) ==
    LET idx == {i \in 1..Len(resolved_command) : resolved_command[i].k = "ph"}
    IN IF idx = {} THEN "" ELSE resolved_command[FirstIndex(idx)].n

\* re.match in place of re.search: only a field at the start of the command is seen
UnresolvedTokenAtStart(resolved_command) ==
    IF /\ resolved_command # <<>>
       /\ resolved_command[1].k = "ph"
       /\ resolved_command[1].n \in StrictPassNames
    THEN resolved_command[1].n ELSE ""

\* re.search(r'\{[A-Z][A-Za-z0-9_:,\.&]*\}', resolved_command): the name of the
\* leftmost field whose name the pattern matches, "" when there is none
UnresolvedToken(resolved_command) ==
    LET idx == {i \in 1..Len(resolved_command) :
                   /\ resolved_command[i].k = "ph"
                   /\ resolved_command[i].n \in StrictPassNames}
    IN IF idx = {} THEN "" ELSE resolved_command[FirstIndex(idx)].n

\* json.dumps(data): the keys of a dict in their own order
JsonDumpsKeyOrder(data) == data

\* json.dumps(data, sort_keys=True)
JsonDumps(data) ==
    IF data.type = "dict"
    THEN Dict(SortSeq(data.items, LAMBDA a, b : StrLess(a[1], b[1])))
    ELSE data

\* _get_hash: the digest of the canonical string (SHA-256, taken as injective)
GetHash(data) == [sha256 |-> JsonDumps(data)]

\* the digest of the rendered command (a variant CommandHash is compared with)
CommandHashOfRendered(command_template, command_str) == GetHash(Str(command_str))

\* command_hash = self._get_hash(command_template): of the two texts of the command
\* that generate_for_node holds, the raw template is hashed
CommandHash(command_template, command_str) == GetHash(Str(command_template))

\* inputs_hash of the list as resolved
InputsHashUnsorted(all_resolved_inputs) == GetHash(List(all_resolved_inputs))

\* inputs_hash = self._get_hash(sorted(all_resolved_inputs))
InputsHash(all_resolved_inputs) == GetHash(List(Sorted(all_resolved_inputs)))

NoCommand ==
    [cmd_string |-> <<>>, input_files |-> <<>>, output |-> <<>>,
     hashes |-> Hashes(GetHash(Str(<<>>)), GetHash(List(<<>>)), GetHash(Dict(<<>>)))]

\* raise ValueError; warning: the warning of line 59 was printed before;
\* resolved_outputs: the map of resolved outputs as the call leaves it
Raise(kind, token, step, warning, resolved_outputs) ==
    [raised |-> TRUE, kind |-> kind, token |-> token, step |-> step,
     command |-> NoCommand, warning |-> warning, resolved_outputs |-> resolved_outputs]

\* the dict generate_for_node returns
Return(command, warning, resolved_outputs) ==
    [raised |-> FALSE, kind |-> "none", token |-> "", step |-> "", command |-> command,
     warning |-> warning, resolved_outputs |-> resolved_outputs]

NotGenerated ==
    [raised |-> FALSE, kind |-> "none", token |-> "", step |-> "",
     command |-> NoCommand, warning |-> FALSE, resolved_outputs |-> <<>>]

\* late_bound_placeholders
LateBoundOrder == <<"OUTPUT", "INPUTS", "PARAMETERS", "POSITIONAL_FILENAMES">>
LateBound == Range(LateBoundOrder)

\* placeholder in str(value): the text of a list holds the texts of its items
ValueContains(value, name) ==
    \E i \in 1..Len(value.items) : Contains(value.items[i], name)

\* the late-bound check with the loop over the keys left out
LatePlaceholderNone(step_params) == ""

\* the loops of the late-bound check: the placeholder of the error, "" when no value
\* of the step's own PARAMETERS holds one
LatePlaceholder(step_params) ==
    LET Hits(value) == {j \in 1..Len(LateBoundOrder) : ValueContains(value, LateBoundOrder[j])}
        First(late) ==
            IF late = {} THEN ""
            ELSE LateBoundOrder[FirstIndex(Hits(step_params[FirstIndex(late)][2]))]
    IN First({i \in 1..Len(step_params) : Hits(step_params[i][2]) # {}})

\* has_inputs_placeholder or "{POSITIONAL_FILENAMES}" in command_template
HasInputsPlaceholder(command_template) ==
    \/ Contains(command_template, "INPUTS")
    \/ HasIndexedInputs(command_template)
    \/ Contains(command_template, "POSITIONAL_FILENAMES")

\* the checks of the required placeholders with only the one of {OUTPUT}
MissingPlaceholderOutputOnly(command_template, final_params, positional_filenames_templates) ==
    IF ~Contains(command_template, "OUTPUT") THEN "OUTPUT" ELSE ""

\* the checks of the required placeholders: the placeholder of the error, "" when
\* the template has all that are required
MissingPlaceholder(command_template, final_params, positional_filenames_templates) ==
    IF ~Contains(command_template, "OUTPUT") THEN "OUTPUT"
    ELSE IF final_params # <<>> /\ ~Contains(command_template, "PARAMETERS")
        THEN "PARAMETERS"
    ELSE IF /\ positional_filenames_templates # <<>>
            /\ ~Contains(command_template, "POSITIONAL_FILENAMES")
        THEN "POSITIONAL_FILENAMES"
    ELSE ""

\* _build_command_string
BuildCommandString(node_name, rule_data, inputs, output, params, positional_filenames, ctx) ==
    LET template == rule_data.COMMAND
        params_str == FormatShellParams(params, rule_data.DASH, rule_data.UNQUOTED_PARAMS)
        positional_filenames_str == PositionalFilenamesStr(rule_data, positional_filenames)
        Validated(resolved_command, bad_token) ==
            IF bad_token # ""
            THEN [raised |-> TRUE, kind |-> "unresolved", token |-> bad_token,
                  value |-> <<>>]
            ELSE [raised |-> FALSE, kind |-> "none", token |-> "",
                  value |-> resolved_command]
        Resolved(resolved_command) ==
            Validated(resolved_command, UnresolvedToken(resolved_command))
        Expanded(inputs_str, final_template) ==
            IF inputs_str.raised
            THEN [raised |-> TRUE, kind |-> "switch_name", token |-> "", value |-> <<>>]
            ELSE IF final_template.raised
                THEN [raised |-> TRUE, kind |-> "inputs_range",
                      token |-> final_template.token, value |-> <<>>]
            ELSE Resolved(ResolvedCommand(final_template.value,
                              TemplateContext(inputs_str.value, output, params, params_str,
                                              positional_filenames_str, ctx)))
    IN Expanded(InputsStr(rule_data, inputs), ResolveInputIndexes(template, inputs))

\* generate_for_node
GenerateForNode(node_name, node_data, general, profile, ctx, resolved_outputs) ==
    LET step_params == node_data.PARAMETERS
        positional_filenames_templates == node_data.POSITIONAL_FILENAMES
        command_template == node_data.RULE.COMMAND
        warning == ~HasInputsPlaceholder(command_template)
        \* lines 85-89, after _build_command_string
        Built(final_params, inputs, output, outputs, command_str) ==
            IF command_str.raised
            THEN Raise(command_str.kind, command_str.token, node_name, warning, outputs)
            ELSE Return([cmd_string |-> command_str.value, input_files |-> inputs,
                         output |-> output,
                         hashes |-> Hashes(CommandHash(command_template, command_str.value),
                                           InputsHash(inputs),
                                           GetHash(Dict(final_params)))],
                        warning, outputs)
        \* lines 79-83, after the positional filenames are templated
        Positioned(final_params, inputs, output, outputs, resolved_positional_filenames) ==
            IF resolved_positional_filenames.raised
            THEN Raise("undefined", resolved_positional_filenames.token, node_name,
                       warning, outputs)
            ELSE Built(final_params, inputs, output, outputs,
                       BuildCommandString(node_name, node_data.RULE, inputs, output,
                                          final_params,
                                          resolved_positional_filenames.value, ctx))
        \* lines 68-77, after the OUTPUT is templated
        Resolved(final_params, inputs, resolved_output_file) ==
            IF resolved_output_file.raised
            THEN Raise("undefined", resolved_output_file.token, node_name, warning,
                       resolved_outputs)
            ELSE Positioned(final_params, inputs, resolved_output_file.value,
                            DictUpdate(resolved_outputs,
                                       <<node_name, resolved_output_file.value>>),
                            DeepTemplateList(positional_filenames_templates,
                                [n \in {"INPUTS", "OUTPUT"} |->
                                    IF n = "OUTPUT" THEN resolved_output_file.value
                                    ELSE ReprList(inputs)] @@ ctx))
        \* lines 49-67, the checks of the template
        Checked(final_params, inputs, missing) ==
            IF missing = "OUTPUT"
            THEN Raise("missing_placeholder", missing, node_name, FALSE, resolved_outputs)
            ELSE IF missing # ""
                THEN Raise("missing_placeholder", missing, node_name, warning,
                           resolved_outputs)
            ELSE Resolved(final_params, inputs, DeepTemplate(node_data.OUTPUT, ctx))
        \* lines 25-46, the late-bound check, the parameters and the inputs
        Merged(late, final_params, all_resolved_inputs) ==
            IF late # ""
            THEN Raise("late_bound", late, node_name, FALSE, resolved_outputs)
            ELSE IF final_params.raised
                THEN Raise("undefined", final_params.token, node_name, FALSE,
                           resolved_outputs)
            ELSE IF all_resolved_inputs.raised
                THEN Raise(all_resolved_inputs.kind, all_resolved_inputs.token, node_name,
                           FALSE, resolved_outputs)
            ELSE Checked(final_params.value, all_resolved_inputs.value,
                         MissingPlaceholder(command_template, final_params.value,
                                            positional_filenames_templates))
    IN Merged(LatePlaceholder(step_params),
              MergeParameters(node_data, general, profile, ctx),
              ResolveAllInputs(node_data, ctx, resolved_outputs))

(***************************************************************************)
(* State.                                                                  *)
(***************************************************************************)
VARIABLES
    cfg,            \* the configuration (self.config) and the final step
    exists,         \* filesystem: which files exist
    mtime,          \* filesystem: modification time of every file
    clock,          \* filesystem clock
    stateFile,      \* the state file on disk
    pc,             \* where BuildEngine.execute / execute_plan stands
    plan,           \* the BuildPlan of the current (or last) build
    build_state,    \* BuildExecutor.build_state
    gen,            \* index of the generation execute_plan is at
    tasks,          \* tasks_this_generation (node names)
    wpc,            \* position of the worker task of every step
    wlog,           \* locals of the worker tasks of the pool (Popen, return_code, stat)
    results,        \* result returned by the worker task of every step
    finished_count, \* finished_count of execute_plan
    halt_build,     \* halt_build of execute_plan
    outcome,        \* how the last build ended
    spawned,        \* steps for which this build called Popen
    saves,          \* save_state calls of this build
    prev_ok,        \* the last execute_plan returned true, nothing changed since
    plan_after_ok,  \* the current plan was made while prev_ok held
    buildsLeft,     \* builds left
    events,         \* calls of status_callback in this build, in order
    banner,         \* the final banner execute has logged
    node_data,      \* the step generate_for_node is called for
    general_config, \* the GENERAL section the generator was built with
    generated,      \* what generate_for_node returned or raised
    profile_config, \* the section of the active profile the generator was built with
    workflow,       \* the data of every node of the execution graph
    resolved_outputs, \* resolved_outputs of _generate_command_map_and_graph
    command_map,    \* command_map of _generate_command_map_and_graph
    _thread,        \* LiteBuildController._thread (0 is None)
    _worker,        \* LiteBuildController._worker (0 is None)
    qthread,        \* state of every QThread object the controller has made
    qworker,        \* state of every worker object the controller has made
    posted,         \* events posted to the thread of the controller, in order
    emitted,        \* signals the last handler of the controller has emitted
    group,          \* what BuildGroupWorker.run reads from the configuration
    gpc,            \* where BuildGroupWorker.run stands
    current_profile_num, \* current_profile_num of BuildGroupWorker.run
    build_thread,   \* state of the build thread of every profile of the group
    signals         \* emissions of the signals of the group worker, in order

vars == <<cfg, exists, mtime, clock, stateFile, pc, plan, build_state, gen, tasks,
          wpc, wlog, results, finished_count, halt_build, outcome, spawned, saves,
          prev_ok, plan_after_ok, buildsLeft, events, banner, node_data,
          general_config, generated, profile_config, workflow, resolved_outputs,
          command_map, _thread, _worker, qthread, qworker, posted, emitted,
          group, gpc, current_profile_num, build_thread, signals>>

fsVars == <<exists, mtime, clock>>
workerVars == <<wpc, wlog, results, spawned>>
histVars == <<prev_ok, plan_after_ok, buildsLeft>>
cbVars == <<events, banner>>
genVars == <<node_data, general_config, generated, profile_config, workflow,
            resolved_outputs, command_map>>
ctlVars == <<_thread, _worker, qthread, qworker, posted, emitted>>
grpVars == <<group, gpc, current_profile_num, build_thread, signals>>
qtVars == <<ctlVars, grpVars>>
engineVars == <<cfg, fsVars, stateFile, pc, plan, build_state, gen, tasks, workerVars,
               finished_count, halt_build, outcome, saves, histVars, cbVars, genVars>>

NoResult == [status |-> "NONE", data |-> [step_name |-> ""]]
NoLog == [spawn |-> "none", return_code |-> -1, stat |-> "none"]

NoGeneral == [vars |-> <<>>, PARAMETERS |-> <<>>]
\* a RULE with the defaults of every optional key
Rule(command) ==
    [COMMAND |-> command, DASH |-> "-", INPUT_STYLE |-> "positional",
     INPUT_SWITCH_NAME |-> "", INPUT_QUOTED |-> TRUE, UNQUOTED_PARAMS |-> {},
     UNQUOTED_POSITIONALS |-> FALSE]
NoNodeData ==
    [RULE |-> Rule(<<>>), OUTPUT |-> <<>>, INPUTS |-> <<>>, PARAMETERS |-> <<>>,
     POSITIONAL_FILENAMES |-> <<>>, REQUIRES |-> <<>>]

\* the variables of the generator while generate_for_node is not looked at
GeneratorIdle ==
    /\ node_data = NoNodeData
    /\ general_config = NoGeneral
    /\ generated = NotGenerated
    /\ profile_config = NoGeneral
    /\ workflow = [n \in Nodes |-> NoNodeData]
    /\ resolved_outputs = <<>>
    /\ command_map = <<>>

\* QThread and worker objects the controller can make (their identities)
MaxThreads == 3
ThreadIds == 1..MaxThreads

\* the controller after __init__ (lite_build_controller.py 19-23): no thread,
\* no worker, nothing posted to its event loop
ControllerIdle ==
    /\ _thread = 0
    /\ _worker = 0
    /\ qthread = [t \in ThreadIds |-> "none"]
    /\ qworker = [t \in ThreadIds |-> "none"]
    /\ posted = <<>>
    /\ emitted = <<>>

\* profiles of the longest group
MaxProfiles == 3
NoGroup == [loads |-> FALSE, found |-> FALSE, profiles_to_run |-> <<>>, step_name |-> FALSE]
NoBuildThread == [state |-> "none", profile_name |-> ""]

\* no group worker runs
GroupWorkerIdle ==
    /\ group = NoGroup
    /\ gpc = "idle"
    /\ current_profile_num = 0
    /\ build_thread = [i \in 1..MaxProfiles |-> NoBuildThread]
    /\ signals = <<>>

\* the variables of the planner and the executor while no build runs
ExecutorIdle ==
    /\ pc = "idle"
    /\ plan = NoPlan
    /\ build_state = EmptyState
    /\ gen = 0
    /\ tasks = <<>>
    /\ wpc = [n \in Nodes |-> "none"]
    /\ wlog = [n \in Nodes |-> NoLog]
    /\ results = [n \in Nodes |-> NoResult]
    /\ finished_count = 0
    /\ halt_build = FALSE
    /\ outcome = "none"
    /\ spawned = {}
    /\ saves = 0
    /\ plan_after_ok = FALSE
    /\ events = <<>>
    /\ banner = "none"

\* configurations of the build behaviours
BuildConfigs ==
    {Config(WfJoin, NoFinal, mw, {}) : mw \in {1, 2}}
    \cup {Config(WfChain, NoFinal, 1, {}), Config(WfFan, "B", MAX_WORKERS_UNSET, {}),
          Config(WfBack, NoFinal, 2, {}),
          Config(WfJoin, NoFinal, 0, {}), Config(WfChain, NoFinal, 2, {"C"}),
          Config(WfCycle, NoFinal, 2, {}), Config(WfUnknown, "C", 2, {}),
          Config(WfChain, "Q", 1, {})}

(***************************************************************************)
(* The project when the first build of a behaviour starts: never built, or *)
(* built once with success, and then changed by the user in one way.       *)
(***************************************************************************)
Project(c, ex, mt, t, file) ==
    [cfg |-> c, exists |-> ex, mtime |-> mt, clock |-> t, stateFile |-> file]

\* no step was ever built
NeverBuilt(c) ==
    Project(c, [f \in Files |-> f \in Sources], [f \in Files |-> 0], 1,
            StateFile("missing", EmptyState))

\* the steps built before: the whole workflow (a final step, if any, was named
\* for the builds that follow)
BuiltNodes(c) == Nodes

\* every step was built with success at time 1
BuiltOnce(c) ==
    LET outs == {OutputOf[n] : n \in BuiltNodes(c)}
    IN Project(c, [f \in Files |-> f \in Sources \cup outs],
               [f \in Files |-> IF f \in outs THEN 1 ELSE 0], 2,
               StateFile("ok", [p \in outs |->
                   StateEntry(c.hashes[CHOOSE n \in Nodes : OutputOf[n] = p], 1)]))

\* the edits of a step's configuration: each changes one hash of the step
Edits == {<<"A", "command">>, <<"B", "inputs">>, <<"C", "params">>}

Changes ==
    {<<"none", "">>}
    \cup {<<"touch", f>> : f \in Sources}
    \cup {<<"delete", f>> : f \in {"in/y", "out/a", "out/b"}}
    \cup {<<"edit", e[1]>> : e \in Edits}

Changed(pr, ch) ==
    CASE ch[1] = "touch" ->
            [pr EXCEPT !.mtime[ch[2]] = pr.clock, !.clock = pr.clock + 1]
      [] ch[1] = "delete" -> [pr EXCEPT !.exists[ch[2]] = FALSE]
      [] ch[1] = "edit" ->
            LET e == CHOOSE d \in Edits : d[1] = ch[2]
            IN [pr EXCEPT !.cfg.hashes[e[1]][e[2]] = 2]
      [] OTHER -> pr

Projects ==
    {Changed(start, ch) :
        start \in {NeverBuilt(c) : c \in BuildConfigs}
                  \cup {BuiltOnce(c) : c \in BuildConfigs},
        ch \in Changes}

Init ==
    /\ \E pr \in Projects :
          /\ cfg = pr.cfg
          /\ exists = pr.exists
          /\ mtime = pr.mtime
          /\ clock = pr.clock
          /\ stateFile = pr.stateFile
    /\ ExecutorIdle
    /\ ControllerIdle
    /\ GroupWorkerIdle
    /\ GeneratorIdle
    /\ prev_ok = FALSE
    /\ buildsLeft = MaxBuilds

(***************************************************************************)
(* The status callback: status_callback("step", current, total, status).   *)
(***************************************************************************)
StepEvent(current, total, status) ==
    [kind |-> "step", current |-> current, total |-> total, status |-> status]

\* events of the executed steps only (a variant ResultEvents is compared with)
RECURSIVE ResultEventsDoneOnly(_, _, _, _)
ResultEventsDoneOnly(count, total, ts, res) ==
    IF ts = <<>> THEN <<>>
    ELSE IF res[Head(ts)].status = "EXECUTED"
         THEN <<StepEvent(count + 1, total, "done")>>
                  \o ResultEventsDoneOnly(count + 1, total, Tail(ts), res)
    ELSE ResultEventsDoneOnly(count, total, Tail(ts), res)

\* events whose error events report no progress (a variant ResultEvents is
\* compared with)
RECURSIVE ResultEventsErrorZero(_, _, _, _)
ResultEventsErrorZero(count, total, ts, res) ==
    IF ts = <<>> THEN <<>>
    ELSE IF res[Head(ts)].status = "EXECUTED"
         THEN <<StepEvent(count + 1, total, "done")>>
                  \o ResultEventsErrorZero(count + 1, total, Tail(ts), res)
    ELSE <<StepEvent(0, total, "error")>>
             \o ResultEventsErrorZero(count, total, Tail(ts), res)

\* the events of the loop over the results of a generation, count being
\* finished_count before the loop
RECURSIVE ResultEvents(_, _, _, _)
ResultEvents(count, total, ts, res) ==
    IF ts = <<>> THEN <<>>
    ELSE IF res[Head(ts)].status = "EXECUTED"
         THEN <<StepEvent(count + 1, total, "done")>>
                  \o ResultEvents(count + 1, total, Tail(ts), res)
    ELSE IF res[Head(ts)].status = "FAILED"
         THEN <<StepEvent(count, total, "error")>>
                  \o ResultEvents(count, total, Tail(ts), res)
    ELSE ResultEvents(count, total, Tail(ts), res)

(***************************************************************************)
(* BuildEngine.execute: load the state, plan, construct the executor and   *)
(* call execute_plan.  An exception of plan_build ends the build.          *)
(***************************************************************************)
BeginBuild ==
    /\ pc = "idle"
    /\ buildsLeft > 0
    /\ buildsLeft' = buildsLeft - 1
    /\ plan_after_ok' = prev_ok
    /\ wpc' = [n \in Nodes |-> "none"]
    /\ wlog' = [n \in Nodes |-> NoLog]
    /\ results' = [n \in Nodes |-> NoResult]
    /\ spawned' = {}
    /\ saves' = 0
    /\ finished_count' = 0
    /\ halt_build' = FALSE
    /\ tasks' = <<>>
    /\ UNCHANGED <<qtVars, cfg, fsVars, stateFile>>

\* plan_build raises: the except branch of execute
ExecutePlanError ==
    /\ BeginBuild
    /\ PlanRaises(cfg)
    /\ plan' = NoPlan
    /\ outcome' = "planning_error"
    /\ prev_ok' = FALSE
    /\ pc' = "returned"
    /\ gen' = 0
    /\ UNCHANGED build_state
    /\ events' = <<StepEvent(0, 0, "error")>>
    /\ banner' = "failed"
    /\ UNCHANGED genVars

\* execute_plan without the early return: it enters the loop over the generations
\* with nothing to run (a variant ExecuteNothingToRun is compared with)
ExecuteNothingToRunLoops ==
    /\ BeginBuild
    /\ ~PlanRaises(cfg)
    /\ plan' = BuildPlan(cfg, LoadState(stateFile), exists, mtime)
    /\ plan'.steps_to_run = <<>>
    /\ build_state' = LoadState(stateFile)
    /\ outcome' = "running"
    /\ prev_ok' = FALSE
    /\ pc' = "dispatch"
    /\ gen' = 1
    /\ events' = <<StepEvent(0, 0, "started")>>
    /\ UNCHANGED banner
    /\ UNCHANGED genVars

\* execute_plan with nothing to run: returns True before any pool exists
ExecuteNothingToRun ==
    /\ BeginBuild
    /\ ~PlanRaises(cfg)
    /\ plan' = BuildPlan(cfg, LoadState(stateFile), exists, mtime)
    /\ plan'.steps_to_run = <<>>
    /\ build_state' = LoadState(stateFile)
    /\ outcome' = "true"
    /\ prev_ok' = TRUE
    /\ pc' = "returned"
    /\ gen' = 0
    /\ events' = <<StepEvent(0, 0, "started"), StepEvent(0, 0, "done")>>
    /\ banner' = "success"
    /\ UNCHANGED genVars

\* execute_plan enters the loop over the generations
ExecuteStart ==
    /\ BeginBuild
    /\ ~PlanRaises(cfg)
    /\ plan' = BuildPlan(cfg, LoadState(stateFile), exists, mtime)
    /\ plan'.steps_to_run # <<>>
    /\ build_state' = LoadState(stateFile)
    /\ outcome' = "running"
    /\ prev_ok' = FALSE
    /\ pc' = "dispatch"
    /\ gen' = 1
    /\ events' = <<StepEvent(0, Len(plan'.steps_to_run), "started")>>
    /\ UNCHANGED banner
    /\ UNCHANGED genVars

(***************************************************************************)
(* BuildExecutor.execute_plan: the loop over the generations.              *)
(***************************************************************************)
\* keys of tasks_to_run_map
TasksToRun(pl) == {pl.steps_to_run[i].node_name : i \in 1..Len(pl.steps_to_run)}

\* the steps to run of generation g and of every later generation (a variant
\* TasksThisGeneration is compared with)
TasksThisGenerationOnwards(pl, g) ==
    SelectSeq(Flatten(SubSeq(pl.execution_graph.generations, g,
                             Len(pl.execution_graph.generations))),
              LAMBDA n : n \in TasksToRun(pl))

\* every node of generation g, stale or not (a variant TasksThisGeneration is
\* compared with)
TasksThisGenerationUnfiltered(pl, g) == pl.execution_graph.generations[g]

\* tasks_this_generation of generation g
TasksThisGeneration(pl, g) ==
    SelectSeq(pl.execution_graph.generations[g], LAMBDA n : n \in TasksToRun(pl))

\* ProcessPoolExecutor(max_workers=...): None gives one worker per CPU
PoolSize(c) ==
    IF c.max_workers = MAX_WORKERS_UNSET THEN CpuCount ELSE c.max_workers

\* `if not tasks_this_generation: continue`
SkipGeneration ==
    /\ pc = "dispatch"
    /\ gen <= Len(plan.execution_graph.generations)
    /\ TasksThisGeneration(plan, gen) = <<>>
    /\ gen' = gen + 1
    /\ UNCHANGED <<qtVars, cfg, fsVars, stateFile, pc, plan, build_state, tasks, workerVars,
                   finished_count, halt_build, outcome, saves, histVars>>
    /\ UNCHANGED cbVars
    /\ UNCHANGED genVars

\* the pool of the generation is created and executor.map submits its tasks
DispatchGeneration ==
    /\ pc = "dispatch"
    /\ gen <= Len(plan.execution_graph.generations)
    /\ TasksThisGeneration(plan, gen) # <<>>
    /\ PoolSize(cfg) > 0
    /\ tasks' = TasksThisGeneration(plan, gen)
    /\ wpc' = [n \in Nodes |-> IF n \in Range(tasks') THEN "queued" ELSE wpc[n]]
    /\ pc' = "pool"
    /\ UNCHANGED <<qtVars, cfg, fsVars, stateFile, plan, build_state, gen, wlog, results,
                   spawned, finished_count, halt_build, outcome, saves, histVars>>
    /\ UNCHANGED cbVars
    /\ UNCHANGED genVars

\* ProcessPoolExecutor raises ValueError for max_workers <= 0; execute catches it
PoolError ==
    /\ pc = "dispatch"
    /\ gen <= Len(plan.execution_graph.generations)
    /\ TasksThisGeneration(plan, gen) # <<>>
    /\ PoolSize(cfg) <= 0
    /\ pc' = "returned"
    /\ outcome' = "exception"
    /\ UNCHANGED <<qtVars, cfg, fsVars, stateFile, plan, build_state, gen, tasks, workerVars,
                   finished_count, halt_build, saves, histVars>>
    /\ events' = Append(events, StepEvent(0, 0, "error"))
    /\ banner' = "failed"
    /\ UNCHANGED genVars

(***************************************************************************)
(* BuildExecutor._run_single_command, run by a worker of the pool.         *)
(***************************************************************************)
Failed(step_name) == [status |-> "FAILED", data |-> [step_name |-> step_name]]

Executed(step_name, output_path, hashes, new_mtime) ==
    [status |-> "EXECUTED",
     data |-> [step_name |-> step_name, output_path |-> output_path,
               hashes |-> hashes, mtime |-> new_mtime]]

\* a worker that does not look at the exit code (a variant WorkerResult is
\* compared with)
WorkerResultAnyExit(step_name, command, spawn_ok, return_code, ex, mt) ==
    IF ~spawn_ok \/ ~ex[command.output] THEN Failed(step_name)
    ELSE Executed(step_name, command.output, command.hashes, mt[command.output])

\* a worker that does not stat the output file (a variant WorkerResult is
\* compared with)
WorkerResultNoStat(step_name, command, spawn_ok, return_code, ex, mt) ==
    IF ~spawn_ok \/ return_code # 0 THEN Failed(step_name)
    ELSE Executed(step_name, command.output, command.hashes, mt[command.output])

\* the result of the task, from what happened inside the try block
WorkerResult(step_name, command, spawn_ok, return_code, ex, mt) ==
    IF ~spawn_ok THEN Failed(step_name)
    ELSE IF return_code # 0 THEN Failed(step_name)
    ELSE IF ~ex[command.output] THEN Failed(step_name)
    ELSE Executed(step_name, command.output, command.hashes, mt[command.output])

\* a write stamps the file with the clock, which then advances (two writes
\* get the same stamp once the clock is at its bound)
Tick(t) == IF t < MaxClock THEN t + 1 ELSE t

Running == {n \in Nodes : wpc[n] = "child"}

\* a worker of the pool is free and takes the next task of the queue
WorkerFree(n) ==
    /\ pc = "pool"
    /\ wpc[n] = "queued"
    /\ Cardinality(Running) < PoolSize(cfg)
    /\ \A i \in 1..Len(tasks) :
          i < IndexOf(tasks, n) => wpc[tasks[i]] # "queued"

\* Popen succeeds: the child process runs
WorkerSpawn(n) ==
    /\ WorkerFree(n)
    /\ wpc' = [wpc EXCEPT ![n] = "child"]
    /\ wlog' = [wlog EXCEPT ![n].spawn = "ok"]
    /\ spawned' = spawned \cup {n}
    /\ UNCHANGED <<qtVars, cfg, fsVars, stateFile, pc, plan, build_state, gen, tasks, results,
                   finished_count, halt_build, outcome, saves, histVars>>
    /\ UNCHANGED cbVars
    /\ UNCHANGED genVars

\* Popen raises: the except branch returns FAILED
WorkerSpawnFails(n) ==
    /\ WorkerFree(n)
    /\ wpc' = [wpc EXCEPT ![n] = "returned"]
    /\ wlog' = [wlog EXCEPT ![n].spawn = "failed"]
    /\ results' = [results EXCEPT
                     ![n] = WorkerResult(n, plan.command_map[n], FALSE, 0, exists, mtime)]
    /\ UNCHANGED <<qtVars, cfg, fsVars, stateFile, pc, plan, build_state, gen, tasks, spawned,
                   finished_count, halt_build, outcome, saves, histVars>>
    /\ UNCHANGED cbVars
    /\ UNCHANGED genVars

\* what the command does to the filesystem before it exits: it writes its
\* output file, or leaves the filesystem as it is
ChildEffect(n, writes) ==
    IF writes
    THEN /\ exists' = [exists EXCEPT ![OutputOf[n]] = TRUE]
         /\ mtime' = [mtime EXCEPT ![OutputOf[n]] = clock]
         /\ clock' = Tick(clock)
    ELSE UNCHANGED fsVars

\* the child runs and exits with return_code; the worker has read its output
\* to the end, waits for it, stats the output file and returns
WorkerReturn(n) ==
    /\ pc = "pool"
    /\ wpc[n] = "child"
    /\ \E writes \in BOOLEAN, return_code \in {0, 1} :
          /\ ChildEffect(n, writes)
          /\ results' = [results EXCEPT
                ![n] = WorkerResult(n, plan.command_map[n], TRUE, return_code,
                                    exists', mtime')]
          /\ wlog' = [wlog EXCEPT
                ![n].return_code = return_code,
                ![n].stat = IF return_code # 0 THEN "none"
                            ELSE IF exists'[OutputOf[n]] THEN "ok" ELSE "failed"]
    /\ wpc' = [wpc EXCEPT ![n] = "returned"]
    /\ UNCHANGED <<qtVars, cfg, stateFile, pc, plan, build_state, gen, tasks, spawned,
                   finished_count, halt_build, outcome, saves, histVars>>
    /\ UNCHANGED cbVars
    /\ UNCHANGED genVars

(***************************************************************************)
(* execute_plan: the join of the generation and the integration of the     *)
(* results, in the order of the tasks.                                     *)
(***************************************************************************)
\* a join that waits for one task only (a variant GenerationJoined is compared with)
GenerationJoinedAny(ts, w) == \E i \in 1..Len(ts) : w[ts[i]] = "returned"

\* list(executor.map(...)) and the end of the `with` block: every task returned
GenerationJoined(ts, w) == \A i \in 1..Len(ts) : w[ts[i]] = "returned"

\* an integration that stops at the first FAILED result (a variant
\* IntegrateState is compared with)
RECURSIVE IntegrateStateUntilFailure(_, _, _)
IntegrateStateUntilFailure(state, ts, res) ==
    IF ts = <<>> \/ res[Head(ts)].status # "EXECUTED" THEN state
    ELSE LET r == res[Head(ts)]
         IN IntegrateStateUntilFailure(
                SetEntry(state, r.data.output_path,
                         StateEntry(r.data.hashes, r.data.mtime)),
                Tail(ts), res)

\* build_state after the loop over the results
RECURSIVE IntegrateState(_, _, _)
IntegrateState(state, ts, res) ==
    IF ts = <<>> THEN state
    ELSE LET r == res[Head(ts)]
         IN IntegrateState(
                IF r.status = "EXECUTED"
                THEN SetEntry(state, r.data.output_path,
                              StateEntry(r.data.hashes, r.data.mtime))
                ELSE state,
                Tail(ts), res)

\* finished_count after the loop over the results
CountExecuted(ts, res) ==
    Cardinality({i \in 1..Len(ts) : res[ts[i]].status = "EXECUTED"})

\* a halt decision that looks at the first result only (a variant AnyFailed is
\* compared with)
AnyFailedFirst(ts, res) == res[ts[1]].status = "FAILED"

\* halt_build after the loop over the results
AnyFailed(ts, res) == \E i \in 1..Len(ts) : res[ts[i]].status = "FAILED"

\* a loop that stays at the generation it has integrated (a variant JoinGeneration
\* is compared with)
JoinGenerationRepeats ==
    /\ pc = "pool"
    /\ GenerationJoined(tasks, wpc)
    /\ build_state' = IntegrateState(build_state, tasks, results)
    /\ finished_count' = finished_count + CountExecuted(tasks, results)
    /\ halt_build' = AnyFailed(tasks, results)
    /\ IF halt_build'
       THEN pc' = "save" /\ gen' = gen
       ELSE pc' = "dispatch" /\ gen' = gen
    /\ wlog' = [n \in Nodes |-> NoLog]
    /\ UNCHANGED <<qtVars, cfg, fsVars, stateFile, plan, tasks, wpc, results, spawned,
                   outcome, saves, histVars>>
    /\ events' = events \o ResultEvents(finished_count, Len(plan.steps_to_run),
                                         tasks, results)
    /\ UNCHANGED banner
    /\ UNCHANGED genVars

JoinGeneration ==
    /\ pc = "pool"
    /\ GenerationJoined(tasks, wpc)
    /\ build_state' = IntegrateState(build_state, tasks, results)
    /\ finished_count' = finished_count + CountExecuted(tasks, results)
    /\ halt_build' = AnyFailed(tasks, results)
    /\ IF halt_build'
       THEN pc' = "save" /\ gen' = gen
       ELSE pc' = "dispatch" /\ gen' = gen + 1
    /\ wlog' = [n \in Nodes |-> NoLog]
    /\ UNCHANGED <<qtVars, cfg, fsVars, stateFile, plan, tasks, wpc, results, spawned,
                   outcome, saves, histVars>>
    /\ events' = events \o ResultEvents(finished_count, Len(plan.steps_to_run),
                                         tasks, results)
    /\ UNCHANGED banner
    /\ UNCHANGED genVars

\* the loop over the generations is over
LoopDone ==
    /\ pc = "dispatch"
    /\ gen > Len(plan.execution_graph.generations)
    /\ pc' = "save"
    /\ UNCHANGED <<qtVars, cfg, fsVars, stateFile, plan, build_state, gen, tasks, workerVars,
                   finished_count, halt_build, outcome, saves, histVars>>
    /\ UNCHANGED cbVars
    /\ UNCHANGED genVars

(***************************************************************************)
(* BuildStateManager.save_state, called by execute_plan before it returns. *)
(***************************************************************************)
\* the file is written; execute_plan returns False after a failure, else True
SaveState ==
    /\ pc = "save"
    /\ stateFile' = StateFile("ok", build_state)
    /\ saves' = saves + 1
    /\ outcome' = IF halt_build THEN "false" ELSE "true"
    /\ prev_ok' = ~halt_build
    /\ pc' = "returned"
    /\ UNCHANGED <<qtVars, cfg, fsVars, plan, build_state, gen, tasks, workerVars,
                   finished_count, halt_build, plan_after_ok, buildsLeft>>
    /\ banner' = IF halt_build THEN "failed" ELSE "success"
    /\ UNCHANGED genVars
    /\ UNCHANGED events

\* open or json.dump raises IOError: execute_plan raises, execute catches it.
\* The file is as before (open failed) or truncated (the write failed).
SaveStateFails ==
    /\ pc = "save"
    /\ stateFile' \in {stateFile, StateFile("malformed", EmptyState)}
    /\ saves' = saves + 1
    /\ outcome' = "exception"
    /\ prev_ok' = FALSE
    /\ pc' = "returned"
    /\ UNCHANGED <<qtVars, cfg, fsVars, plan, build_state, gen, tasks, workerVars,
                   finished_count, halt_build, plan_after_ok, buildsLeft>>
    /\ events' = Append(events, StepEvent(0, 0, "error"))
    /\ banner' = "failed"
    /\ UNCHANGED genVars

(***************************************************************************)
(* BuildEngine.execute returns; the planner and the executor of the build  *)
(* are dropped.                                                            *)
(***************************************************************************)
ExecuteReturns ==
    /\ pc = "returned"
    /\ pc' = "idle"
    /\ plan' = NoPlan
    /\ build_state' = EmptyState
    /\ gen' = 0
    /\ tasks' = <<>>
    /\ wpc' = [n \in Nodes |-> "none"]
    /\ wlog' = [n \in Nodes |-> NoLog]
    /\ results' = [n \in Nodes |-> NoResult]
    /\ finished_count' = 0
    /\ halt_build' = FALSE
    /\ outcome' = "none"
    /\ spawned' = {}
    /\ saves' = 0
    /\ plan_after_ok' = FALSE
    /\ UNCHANGED <<qtVars, cfg, fsVars, stateFile, prev_ok, buildsLeft>>
    /\ events' = <<>>
    /\ banner' = "none"
    /\ UNCHANGED genVars

(***************************************************************************)
(* Specification of the build behaviours.                                  *)
(***************************************************************************)
Next ==
    \/ ExecutePlanError
    \/ ExecuteNothingToRun
    \/ ExecuteStart
    \/ SkipGeneration
    \/ DispatchGeneration
    \/ PoolError
    \/ \E n \in Nodes : WorkerSpawn(n)
    \/ \E n \in Nodes : WorkerSpawnFails(n)
    \/ \E n \in Nodes : WorkerReturn(n)
    \/ JoinGeneration
    \/ LoopDone
    \/ SaveState
    \/ SaveStateFails
    \/ ExecuteReturns

Spec == Init /\ [][Next]_vars

(***************************************************************************)
(* Specification of the planner alone: plan_build is applied once to a     *)
(* configuration, a build state and a filesystem drawn from bounded sets.  *)
(***************************************************************************)
PlanConfigs ==
    {Config(WfChain, NoFinal, 1, {}), Config(WfJoin, NoFinal, 1, {}),
     Config(WfFan, NoFinal, 1, {}), Config(WfFan, "B", 1, {}),
     Config(WfBack, NoFinal, 1, {}), Config(WfChain, "B", 1, {})}

PlanErrorConfigs ==
    {Config(WfCycle, NoFinal, 1, {}), Config(WfUnknown, NoFinal, 1, {}),
     Config(WfChain, "Q", 1, {}), Config(WfChain, NoFinal, 1, {"B"}),
     Config(WfJoin, "B", 1, {"B"})}

\* a file is missing (time 0), or exists with a modification time below MaxClock
FileTimes == [Files -> 0..(MaxClock - 1)]

\* the entry a state file may hold for the output of step n: none, the
\* current hashes, or the hashes of an older configuration of the step
EntryKinds == {"none", "current", "old", "older"}

StoredHashes(n, k) ==
    CASE k = "current" -> Hashes(1, 1, 1)
      [] n = "A" /\ k = "old" -> Hashes(2, 1, 1)
      [] n = "A" /\ k = "older" -> Hashes(2, 2, 2)
      [] n = "B" /\ k = "old" -> Hashes(1, 2, 1)
      [] n = "B" /\ k = "older" -> Hashes(1, 2, 2)
      [] n = "C" /\ k = "old" -> Hashes(1, 1, 2)
      [] OTHER -> Hashes(2, 1, 2)

\* a state file written by a build at time 1
StoredState(kinds) ==
    [p \in {OutputOf[n] : n \in {m \in Nodes : kinds[m] # "none"}} |->
        LET n == CHOOSE m \in Nodes : OutputOf[m] = p
        IN StateEntry(StoredHashes(n, kinds[n]), 1)]

InitPlan ==
    /\ \/ /\ cfg \in PlanConfigs
          /\ \E ft \in FileTimes :
                /\ ft["out/c"] <= 1
                /\ exists = [f \in Files |-> ft[f] > 0]
                /\ mtime = ft
          /\ \E kinds \in [Nodes -> EntryKinds] :
                stateFile = StateFile("ok", StoredState(kinds))
       \/ /\ cfg \in PlanErrorConfigs
          /\ exists = [f \in Files |-> f \in Sources]
          /\ mtime = [f \in Files |-> 0]
          /\ stateFile = StateFile("missing", EmptyState)
    /\ clock = MaxClock - 1
    /\ ExecutorIdle
    /\ ControllerIdle
    /\ GroupWorkerIdle
    /\ GeneratorIdle
    /\ prev_ok = FALSE
    /\ buildsLeft = 0

\* plan_build returns the plan
PlanBuild ==
    /\ pc = "idle"
    /\ ~PlanRaises(cfg)
    /\ plan' = BuildPlan(cfg, LoadState(stateFile), exists, mtime)
    /\ pc' = "planned"
    /\ UNCHANGED <<qtVars, cfg, fsVars, stateFile, build_state, gen, tasks, workerVars,
                   finished_count, halt_build, outcome, saves, histVars>>
    /\ UNCHANGED cbVars
    /\ UNCHANGED genVars

\* plan_build raises
PlanBuildRaises ==
    /\ pc = "idle"
    /\ PlanRaises(cfg)
    /\ outcome' = "planning_error"
    /\ pc' = "planned"
    /\ UNCHANGED <<qtVars, cfg, fsVars, stateFile, plan, build_state, gen, tasks, workerVars,
                   finished_count, halt_build, saves, histVars>>
    /\ UNCHANGED cbVars
    /\ UNCHANGED genVars

NextPlan == PlanBuild \/ PlanBuildRaises

SpecPlan == InitPlan /\ [][NextPlan]_vars

(***************************************************************************)
(* Properties of the executor (specification Spec).                        *)
(***************************************************************************)
\* index of the topological generation of step n in the plan
GenOf(pl, n) ==
    CHOOSE g \in 1..Len(pl.execution_graph.generations) :
        n \in Range(pl.execution_graph.generations[g])

PlannedNodes == plan.execution_graph.nodes

SomeFailed == \E n \in Nodes : results[n].status = "FAILED"

\* C1 (generation barrier): whenever a task of a step has been submitted to
\* the pool or started, every step of steps_to_run that lies in an earlier
\* topological generation has a task that has returned, whatever the plan and
\* the MAX_WORKERS value.
C1_GenerationBarrier ==
    \A n \in PlannedNodes : \A m \in PlannedNodes :
        (/\ wpc[n] # "none"
         /\ m \in TasksToRun(plan)
         /\ GenOf(plan, m) < GenOf(plan, n)) => wpc[m] = "returned"

\* a task of the second generation runs after two tasks of the first
\* generation, which ran side by side, have returned
C1_Witness ==
    /\ pc = "pool"
    /\ PoolSize(cfg) = 2
    /\ \E n \in PlannedNodes :
          /\ wpc[n] = "child"
          /\ GenOf(plan, n) = 2
          /\ Cardinality({m \in PlannedNodes :
                 GenOf(plan, m) = 1 /\ wpc[m] = "returned" /\ m \in spawned}) = 2

InputsSettled(c, st, ex, mt) ==
    \A n \in ExecutionSubgraph(c).nodes : \A i \in 1..Len(c.inputs[n]) :
        /\ ex[c.inputs[n][i]]
        /\ OutputOf[n] \in DOMAIN st => mt[c.inputs[n][i]] <= st[OutputOf[n]].mtime

\* C4 as stated (idempotence): a plan made right after a build in which
\* execute_plan returned true, with the same configuration, the persisted
\* state file and an unmodified filesystem, has an empty steps_to_run.
C4_IdempotenceAsStated ==
    (plan_after_ok /\ pc \in {"dispatch", "pool", "save", "returned"})
        => plan.steps_to_run = <<>>

\* C4 (idempotence, amended): a plan made right after a build in which
\* execute_plan returned true, with the same configuration, the persisted
\* state file and an unmodified filesystem, has an empty steps_to_run and
\* every step of the execution subgraph in steps_to_skip, provided every
\* resolved input of every step exists and is not newer than the mtime the
\* state file records for the step's output.
C4_Idempotence ==
    [][(/\ pc = "idle"
        /\ pc' # "idle"
        /\ plan_after_ok'
        /\ InputsSettled(cfg, LoadState(stateFile), exists, mtime))
          => /\ plan'.steps_to_run = <<>>
             /\ {plan'.steps_to_skip[i].node_name :
                    i \in 1..Len(plan'.steps_to_skip)} = ExecutionSubgraph(cfg).nodes
             /\ outcome' = "true"]_vars

\* the second build, after a first build of this behaviour that executed a
\* step at time 2 or later and returned true, has nothing to run
C4_Witness ==
    /\ plan_after_ok
    /\ pc = "returned"
    /\ plan.steps_to_run = <<>>
    /\ Len(plan.steps_to_skip) >= 2
    /\ InputsSettled(cfg, LoadState(stateFile), exists, mtime)
    /\ \E p \in DOMAIN LoadState(stateFile) : LoadState(stateFile)[p].mtime >= 2

\* C5 (post-run state invariant): when execute_plan has returned true or
\* false, for every step whose task returned EXECUTED the state file holds an
\* entry at the step's output path, with the hashes of the step's command in
\* the plan and the modification time of the step's output file.
C5_PostRunState ==
    (pc = "returned" /\ outcome \in {"true", "false"}) =>
        \A n \in Nodes :
            results[n].status = "EXECUTED" =>
                /\ stateFile.kind = "ok"
                /\ OutputOf[n] \in DOMAIN stateFile.content
                /\ stateFile.content[OutputOf[n]].hashes = plan.command_map[n].hashes
                /\ exists[OutputOf[n]]
                /\ stateFile.content[OutputOf[n]].mtime = mtime[OutputOf[n]]

\* execute_plan returned false after a generation in which the first task
\* failed and the second was executed; its entry replaces an older one
C5_Witness ==
    /\ pc = "returned"
    /\ outcome = "false"
    /\ Len(tasks) = 2
    /\ results[tasks[1]].status = "FAILED"
    /\ results[tasks[2]].status = "EXECUTED"
    /\ stateFile.content[OutputOf[tasks[2]]].mtime >= 2

\* generation of the commands or construction of the graph fails for the
\* execution subgraph of configuration c
ConfigError(c) ==
    IF UnknownRequires(c) \/ HasCycle(c) \/ UnknownFinal(c) THEN TRUE
    ELSE \E n \in ExecutionSubgraph(c).nodes : ~c.has_output_ph[n]

\* C9 (configuration errors stop the build before execution): when graph
\* construction or command generation fails for a node of the execution
\* subgraph, no step of a build spawns a subprocess, no task is submitted,
\* save_state is not called, the state file stays as it is, and execute ends
\* in the except branch for the error raised by plan_build.
C9_ConfigErrorStopsBuild ==
    [][ConfigError(cfg) =>
          /\ stateFile' = stateFile
          /\ spawned' = {}
          /\ saves' = 0
          /\ \A n \in Nodes : wpc'[n] = "none"
          /\ pc' \in {"idle", "returned"}
          /\ pc' = "returned" => outcome' = "planning_error"]_vars

\* a build stopped by the invalid command of one step, although the output of
\* another step, whose command is valid, is missing
C9_Witness ==
    /\ pc = "returned"
    /\ outcome = "planning_error"
    /\ ~GraphError(cfg)
    /\ \E n \in ExecutionSubgraph(cfg).nodes : ~cfg.has_output_ph[n]
    /\ \E n \in ExecutionSubgraph(cfg).nodes :
          cfg.has_output_ph[n] /\ ~exists[OutputOf[n]]
    /\ stateFile.kind = "ok"

\* C10 (worker failure containment): a task whose Popen raised, whose child
\* exited with a non-zero code, or whose stat of the output raised, returns
\* ('FAILED', {step_name}); every task that ran returns EXECUTED or FAILED to
\* the dispatching loop, which is still in the pool and has seen no exception;
\* EXECUTED is returned only after a spawn that succeeded and exit code 0.
C10_WorkerFailureContainment ==
    \A n \in Nodes :
        (wpc[n] = "returned" /\ wlog[n].spawn # "none") =>
            /\ pc = "pool"
            /\ outcome = "running"
            /\ results[n].status \in {"EXECUTED", "FAILED"}
            /\ (\/ wlog[n].spawn = "failed"
                \/ wlog[n].return_code # 0
                \/ wlog[n].stat = "failed")
                  => results[n] = [status |-> "FAILED", data |-> [step_name |-> n]]
            /\ results[n].status = "EXECUTED"
                  => wlog[n].spawn = "ok" /\ wlog[n].return_code = 0

\* in one generation, a task whose spawn failed, and a task whose child wrote
\* the output and exited with code 1
C10_Witness ==
    /\ pc = "pool"
    /\ \E n \in Nodes : \E m \in Nodes :
          /\ wpc[n] = "returned" /\ wlog[n].spawn = "failed"
          /\ results[n].status = "FAILED"
          /\ wpc[m] = "returned" /\ wlog[m].return_code = 1
          /\ exists[OutputOf[m]] /\ mtime[OutputOf[m]] >= clock - 1
          /\ results[m].status = "FAILED"

(***************************************************************************)
(* Properties of the planner (specification SpecPlan).                     *)
(***************************************************************************)
Planned == pc = "planned" /\ outcome # "planning_error"

RunNames == {plan.steps_to_run[i].node_name : i \in 1..Len(plan.steps_to_run)}

SkipNames == {plan.steps_to_skip[i].node_name : i \in 1..Len(plan.steps_to_skip)}

\* steps of both lists
PlanSteps == Range(plan.steps_to_run) \cup Range(plan.steps_to_skip)

\* m can be reached from n by one or more edges of the planned graph
Reaches(n, m) ==
    m \in ReachFrom(plan.execution_graph.edges,
                    {e[2] : e \in {d \in plan.execution_graph.edges : d[1] = n}})

\* C3 (staleness propagation): in every plan returned by plan_build, a node
\* whose update code from _is_step_outdated is not UP_TO_DATE, and every
\* descendant of it in the execution subgraph, is in steps_to_run and not in
\* steps_to_skip.
C3_StalenessPropagation ==
    Planned =>
        \A n \in PlannedNodes :
            IsStepOutdated(plan.command_map[n], LoadState(stateFile), exists,
                           mtime).code # UP_TO_DATE
            => \A m \in PlannedNodes :
                  (m = n \/ Reaches(n, m)) => m \in RunNames /\ m \notin SkipNames

\* one outdated step with a descendant two edges away that is stale only by
\* propagation, and an up-to-date step that is skipped
C3_Witness ==
    /\ Planned
    /\ \E n \in PlannedNodes : \E m \in PlannedNodes : \E k \in PlannedNodes :
          /\ <<n, k>> \in plan.execution_graph.edges
          /\ <<k, m>> \in plan.execution_graph.edges
          /\ \E i \in 1..Len(plan.steps_to_run) :
                /\ plan.steps_to_run[i].node_name = m
                /\ plan.steps_to_run[i].update_code = STALE_TARGET
          /\ \E i \in 1..Len(plan.steps_to_run) :
                /\ plan.steps_to_run[i].node_name = k
                /\ plan.steps_to_run[i].update_code = STALE_TARGET
          /\ \E i \in 1..Len(plan.steps_to_run) :
                /\ plan.steps_to_run[i].node_name = n
                /\ plan.steps_to_run[i].update_code = NEWER_INPUT

\* the checks of step st before the inputs are looked at: the code of the
\* first that triggers, or UP_TO_DATE
EarlyCode(st) ==
    LET out == st.command.output
        state == LoadState(stateFile)
    IN IF ~exists[out] THEN MISSING_OUTPUT
       ELSE IF out \notin DOMAIN state THEN NOT_TRACKED
       ELSE IF state[out].hashes.command # st.command.hashes.command
            THEN COMMAND_CHANGED
       ELSE IF state[out].hashes.inputs # st.command.hashes.inputs
            THEN INPUTS_CHANGED
       ELSE IF state[out].hashes.params # st.command.hashes.params
            THEN PARAMS_CHANGED
       ELSE UP_TO_DATE

MissingAt(st, i) == ~exists[st.command.input_files[i]]

NewerAt(st, i) ==
    /\ exists[st.command.input_files[i]]
    /\ mtime[st.command.input_files[i]]
          > LoadState(stateFile)[st.command.output].mtime

\* C6 as stated (staleness check order): when none of the checks
\* MISSING_OUTPUT, NOT_TRACKED, COMMAND_CHANGED, INPUTS_CHANGED and
\* PARAMS_CHANGED triggers and some resolved input file does not exist, the
\* code of the step is MISSING_INPUT, also when another input is newer.
C6_CheckOrderAsStated ==
    Planned =>
        \A st \in PlanSteps :
            (/\ EarlyCode(st) = UP_TO_DATE
             /\ \E i \in 1..Len(st.command.input_files) : MissingAt(st, i))
                => st.update_code = MISSING_INPUT

\* C6 (staleness check order, amended): the code of a step is that of the
\* first check that triggers in the order MISSING_OUTPUT, NOT_TRACKED,
\* COMMAND_CHANGED, INPUTS_CHANGED, PARAMS_CHANGED; if none triggers, the
\* inputs are looked at one by one in list order, and the first input that is
\* missing (MISSING_INPUT) or newer than the stored mtime (NEWER_INPUT)
\* decides, with its base name as context; otherwise the step is UP_TO_DATE
\* (in steps_to_skip, or in steps_to_run as STALE_TARGET).
C6_CheckOrder ==
    Planned =>
        \A st \in PlanSteps :
            LET n == Len(st.command.input_files)
                bad == {i \in 1..n : MissingAt(st, i) \/ NewerAt(st, i)}
            IN IF EarlyCode(st) # UP_TO_DATE
               THEN st.update_code = EarlyCode(st)
               ELSE IF bad = {}
               THEN st.update_code \in {UP_TO_DATE, STALE_TARGET}
               ELSE LET first == CHOOSE i \in bad : \A j \in bad : i <= j
                    IN /\ st.update_code =
                            IF MissingAt(st, first) THEN MISSING_INPUT
                            ELSE NEWER_INPUT
                       /\ st.context = Basename[st.command.input_files[first]]

\* a step whose first input is newer than the stored mtime and whose second
\* input is missing: the plan gives it NEWER_INPUT
C6_Witness ==
    /\ Planned
    /\ \E st \in PlanSteps :
          /\ EarlyCode(st) = UP_TO_DATE
          /\ Len(st.command.input_files) = 2
          /\ NewerAt(st, 1)
          /\ MissingAt(st, 2)
          /\ st.update_code = NEWER_INPUT

\* no element of sequence q occurs twice
NoDuplicates(q) == \A i \in 1..Len(q) : \A j \in 1..Len(q) : q[i] = q[j] => i = j

\* no step of list q comes before one of its ancestors that is in q
TopologicalOrder(q) ==
    \A i \in 1..Len(q) : \A j \in 1..Len(q) :
        (i < j) => ~Reaches(q[j].node_name, q[i].node_name)

\* C7 (plan partition and ordering): in every plan, steps_to_run and
\* steps_to_skip are disjoint, contain together every node of the execution
\* subgraph exactly once, and each list is in topological order.
C7_PartitionAndOrder ==
    Planned =>
        /\ RunNames \cap SkipNames = {}
        /\ RunNames \cup SkipNames = PlannedNodes
        /\ PlannedNodes = ExecutionSubgraph(cfg).nodes
        /\ Len(plan.steps_to_run) + Len(plan.steps_to_skip)
              = Cardinality(PlannedNodes)
        /\ NoDuplicates(plan.steps_to_run)
        /\ NoDuplicates(plan.steps_to_skip)
        /\ TopologicalOrder(plan.steps_to_run)
        /\ TopologicalOrder(plan.steps_to_skip)

\* a plan whose steps_to_run holds a step and its ancestor, listed in the
\* workflow after it, and whose steps_to_skip is not empty
C7_Witness ==
    /\ Planned
    /\ Len(plan.steps_to_skip) = 1
    /\ Len(plan.steps_to_run) = 2
    /\ Reaches(plan.steps_to_run[1].node_name, plan.steps_to_run[2].node_name)
    /\ IndexOf(NodeOrder, plan.steps_to_run[1].node_name)
          > IndexOf(NodeOrder, plan.steps_to_run[2].node_name)

\* the verdict of _is_step_outdated for node n of the plan
OwnVerdict(n) ==
    IsStepOutdated(plan.command_map[n], LoadState(stateFile), exists, mtime)

\* n has an ancestor in the planned graph that _is_step_outdated finds outdated
HasOutdatedAncestor(n) ==
    \E m \in PlannedNodes : Reaches(m, n) /\ OwnVerdict(m).code # UP_TO_DATE

\* C25 (update codes in the plan): every step of steps_to_run carries the code
\* _is_step_outdated returns for it when that code is not UP_TO_DATE, and
\* carries STALE_TARGET exactly when it is not outdated itself but descends
\* from an outdated step; every step of steps_to_skip carries UP_TO_DATE, is
\* not outdated itself and has no outdated ancestor.
C25_UpdateCodes ==
    Planned =>
        /\ \A i \in 1..Len(plan.steps_to_run) :
              LET s == plan.steps_to_run[i]
                  v == OwnVerdict(s.node_name)
              IN /\ v.code # UP_TO_DATE =>
                        s.update_code = v.code /\ s.context = v.context
                 /\ s.update_code = STALE_TARGET
                        <=> (v.code = UP_TO_DATE /\ HasOutdatedAncestor(s.node_name))
                 /\ s.update_code # UP_TO_DATE
        /\ \A i \in 1..Len(plan.steps_to_skip) :
              LET s == plan.steps_to_skip[i]
              IN /\ s.update_code = UP_TO_DATE
                 /\ OwnVerdict(s.node_name).code = UP_TO_DATE
                 /\ ~HasOutdatedAncestor(s.node_name)

\* a transitive-stale plan: the first step carries COMMAND_CHANGED, the two
\* steps after it, up to date themselves, carry STALE_TARGET
C25_Witness ==
    /\ Planned
    /\ Len(plan.steps_to_run) = 3
    /\ plan.steps_to_run[1].update_code = COMMAND_CHANGED
    /\ plan.steps_to_run[2].update_code = STALE_TARGET
    /\ plan.steps_to_run[3].update_code = STALE_TARGET
    /\ Reaches(plan.steps_to_run[1].node_name, plan.steps_to_run[3].node_name)

(***************************************************************************)
(* Properties of the order and the extent of execution (specification      *)
(* Spec).                                                                  *)
(***************************************************************************)
\* C26 (dependency order of execution): whenever a task of step S has been
\* submitted or started, every ancestor of S in the execution subgraph is in
\* steps_to_skip or has a task that returned EXECUTED in this run; no task
\* exists for a step while an ancestor is still running or has failed.
C26_DependencyOrder ==
    \A n \in PlannedNodes : \A m \in PlannedNodes :
        (wpc[n] # "none" /\ Reaches(m, n)) =>
            \/ m \in SkipNames /\ wpc[m] = "none"
            \/ /\ m \in RunNames
               /\ wpc[m] = "returned"
               /\ results[m].status = "EXECUTED"

\* a task runs whose two ancestors differ: one was skipped, the other was
\* executed in this run
C26_Witness ==
    /\ pc = "pool"
    /\ \E n \in PlannedNodes : \E m \in PlannedNodes : \E k \in PlannedNodes :
          /\ wpc[n] = "child"
          /\ Reaches(m, n) /\ m \in SkipNames
          /\ Reaches(k, n) /\ k \in RunNames /\ results[k].status = "EXECUTED"

\* C27 (only stale steps run, once each): a task calls Popen only for a step
\* of steps_to_run, never for a step of steps_to_skip, and only if no task
\* called Popen for that step before in this run; when execute_plan returns
\* true, every step of steps_to_run has been spawned and has returned
\* EXECUTED, and no other step has been spawned.
C27_OnlyStaleOnce ==
    [][/\ \A n \in Nodes :
             (wlog'[n].spawn # wlog[n].spawn /\ wlog'[n].spawn # "none") =>
                 /\ wlog[n].spawn = "none"
                 /\ results[n].status = "NONE"
                 /\ n \notin spawned
                 /\ n \in RunNames
                 /\ n \notin SkipNames
       /\ (pc' = "returned" /\ outcome' = "true") =>
             /\ spawned' = {plan'.steps_to_run[i].node_name :
                                i \in 1..Len(plan'.steps_to_run)}
             /\ \A n \in spawned' : results'[n].status = "EXECUTED"]_vars

\* execute_plan returned true after it ran two steps and skipped one
C27_Witness ==
    /\ pc = "returned"
    /\ outcome = "true"
    /\ Cardinality(spawned) = 2
    /\ spawned = RunNames
    /\ Cardinality(SkipNames) = 1
    /\ \A n \in SkipNames : results[n].status = "NONE"

(***************************************************************************)
(* Properties of the build state and of its persistence (specification     *)
(* Spec).                                                                  *)
(***************************************************************************)
\* no task of the pool is waiting for a worker or running
NoTaskActive == \A n \in Nodes : wpc[n] \notin {"queued", "child"}

\* C11 (serialized state mutation): build_state changes only in a step of the
\* dispatching process: when the executor is constructed (load_state), when
\* it is dropped, or while the results of a generation are integrated, and
\* then every task of the pool has returned; no step of a worker task changes
\* it, so no write to build_state happens while a task is active.
C11_SerializedStateMutation ==
    [][build_state' # build_state =>
          /\ NoTaskActive
          /\ UNCHANGED fsVars
          /\ \/ pc = "idle"
             \/ pc = "returned" /\ pc' = "idle"
             \/ /\ pc = "pool"
                /\ pc' \in {"dispatch", "save"}
                /\ wpc' = wpc /\ results' = results
                /\ \A i \in 1..Len(tasks) : wpc[tasks[i]] = "returned"]_vars

\* the results of a generation of two tasks, run by two workers, have been
\* integrated into a build state that was empty
C11_Witness ==
    /\ pc = "dispatch"
    /\ gen = 2
    /\ PoolSize(cfg) = 2
    /\ Len(tasks) = 2
    /\ stateFile.kind = "missing"
    /\ Cardinality(DOMAIN build_state) = 2

\* C12 (atomic state persistence): whatever happens in save_state, the crash
\* or I/O failure in the middle of it included, the file at the state path
\* holds afterwards the complete state saved before or the complete new
\* state, never an empty or partially written document.
C12_AtomicPersistence ==
    [][\/ stateFile' = stateFile
       \/ stateFile' = StateFile("ok", build_state)]_vars

NotObjectDocs == {"[]", "[1]", "null", "3", "true", "text"}

LoadFiles ==
    {StateFile(k, EmptyState) : k \in {"missing", "unreadable", "malformed", "undecodable"}}
    \cup {StateFile("not_object", doc) : doc \in NotObjectDocs}
    \cup {StateFile("ok", StoredState(kinds)) : kinds \in [Nodes -> EntryKinds]}

InitLoad ==
    /\ cfg = Config(WfChain, NoFinal, 1, {})
    /\ exists = [f \in Files |-> f \in Sources]
    /\ mtime = [f \in Files |-> 0]
    /\ clock = 1
    /\ stateFile \in LoadFiles
    /\ ExecutorIdle
    /\ ControllerIdle
    /\ GroupWorkerIdle
    /\ GeneratorIdle
    /\ prev_ok = FALSE
    /\ buildsLeft = 0

\* load_state returns a value
LoadStateReturns ==
    /\ pc = "idle"
    /\ ~LoadStateOutcome(stateFile).raised
    /\ build_state' = LoadStateOutcome(stateFile).value
    /\ outcome' = IF LoadStateOutcome(stateFile).mapping THEN "mapping" ELSE "not_mapping"
    /\ pc' = "loaded"
    /\ UNCHANGED <<qtVars, cfg, fsVars, stateFile, plan, gen, tasks, workerVars,
                   finished_count, halt_build, saves, histVars>>
    /\ UNCHANGED cbVars
    /\ UNCHANGED genVars

\* load_state raises
LoadStateRaises ==
    /\ pc = "idle"
    /\ LoadStateOutcome(stateFile).raised
    /\ outcome' = "exception"
    /\ pc' = "loaded"
    /\ UNCHANGED <<qtVars, cfg, fsVars, stateFile, plan, build_state, gen, tasks, workerVars,
                   finished_count, halt_build, saves, histVars>>
    /\ UNCHANGED cbVars
    /\ UNCHANGED genVars

NextLoad == LoadStateReturns \/ LoadStateRaises

SpecLoad == InitLoad /\ [][NextLoad]_vars

\* C14 (load_state tolerates a bad state file): load_state raises no
\* exception and returns a mapping, which is empty whenever the state file is
\* missing, unreadable or malformed (not valid JSON, not decodable text, or
\* a JSON document that is not an object).
C14_LoadStateTolerant ==
    pc = "loaded" =>
        /\ outcome = "mapping"
        /\ stateFile.kind # "ok" => build_state = EmptyState

(***************************************************************************)
(* Properties of the status callback and of the facade (specification      *)
(* Spec).                                                                  *)
(***************************************************************************)
\* the `current` values of the events q never decrease, and none exceeds the
\* `total` of its event
Monotonic(q) ==
    \A i \in 1..Len(q) :
        /\ q[i].kind = "step"
        /\ q[i].current <= q[i].total
        /\ i > 1 => q[i - 1].current <= q[i].current

\* execute is in, or has left, its except branch
Raised == outcome \in {"planning_error", "exception"}

\* C15 as stated (status monotonicity): during one build the 'step' events
\* delivered to the callback have non-decreasing `current` values, and every
\* event has current <= total.
C15_MonotonicAsStated == Monotonic(events)

\* C15 (status monotonicity, amended): the 'step' events that execute_plan
\* delivers have non-decreasing `current` values and current <= total; when
\* planning or execution raised, execute delivers one more event,
\* ('step', 0, 0, 'error'), last, which puts `current` back to 0.
C15_Monotonic ==
    IF Raised
    THEN /\ events # <<>>
         /\ events[Len(events)] = StepEvent(0, 0, "error")
         /\ Monotonic(SubSeq(events, 1, Len(events) - 1))
    ELSE Monotonic(events)

\* execute_plan returned false after a generation whose first task was
\* executed and whose second task failed: events 0 started, 1 done, 1 error
C15_Witness ==
    /\ pc = "returned"
    /\ outcome = "false"
    /\ Len(events) = 3
    /\ events[1].status = "started" /\ events[1].current = 0
    /\ events[2].status = "done" /\ events[2].current = 1
    /\ events[3].status = "error" /\ events[3].current = 1
    /\ events[3].total >= 2

ErrorEvents == {i \in 1..Len(events) : events[i].status = "error"}

\* C16 (error reporting by the facade): every build ends with execute about
\* to return, an exception of planning or of execution having been caught;
\* a build that did not succeed (planning error, failed step, exception of
\* the pool, state write failure) has logged the failure banner and the
\* callback has received at least one ('step', current, total, 'error')
\* event; a build that succeeded has logged the success banner and delivered
\* no error event.
C16_ErrorReporting ==
    /\ pc = "returned" =>
          /\ outcome \in {"true", "false", "planning_error", "exception"}
          /\ IF outcome = "true"
             THEN banner = "success" /\ ErrorEvents = {}
             ELSE banner = "failed" /\ ErrorEvents # {}
    /\ banner \in {"success", "failed"} => pc = "returned"
    /\ SomeFailed /\ pc \in {"dispatch", "save", "returned"} => ErrorEvents # {}

\* a build whose steps were all executed and whose save_state raised: the
\* only error event is the one of the except branch of execute
C16_Witness ==
    /\ pc = "returned"
    /\ outcome = "exception"
    /\ saves = 1
    /\ ~SomeFailed
    /\ banner = "failed"
    /\ Cardinality(ErrorEvents) = 1
    /\ Len(events) >= 3

(***************************************************************************)
(* The command generator alone: generate_for_node on one step of a         *)
(* workflow, over command, OUTPUT, INPUTS, PARAMETERS and                  *)
(* POSITIONAL_FILENAMES templates and GENERAL sections.                    *)
(***************************************************************************)
GenNode == "B"
GenRequires == <<"A">>

\* resolved_outputs when the step is reached: the output of the step it requires
ResolvedOutputs == << <<"A", <<Lit("out/a")>> >> >>

\* context = {"profile_name": profile_name, **general_config, **profile_config}
ContextGeneralLast(general, profile) ==
    general.vars @@ profile.vars @@ ("profile_name" :> <<Lit("prof")>>)

\* context = {"profile_name": profile_name, **general_config, **profile_config}
Context(general, profile) ==
    profile.vars @@ general.vars @@ ("profile_name" :> <<Lit("prof")>>)

\* "cmd <middle> {INPUTS} {PARAMETERS} > {OUTPUT}"
CommandWith(middle) ==
    <<Lit("cmd"), Lit(" ")>> \o middle
        \o <<Lit(" "), Ph("INPUTS"), Lit(" "), Ph("PARAMETERS"), Lit(" "), Lit(">"),
             Lit(" "), Ph("OUTPUT")>>

CommandTemplates ==
    {CommandWith(<<>>),
     CommandWith(<<Ph("DIR")>>),
     CommandWith(<<Ph("REGION")>>),
     CommandWith(<<Ph("MY-VAR")>>),
     CommandWith(<<Ph("LOOP")>>),
     CommandWith(<<Ph("D2")>>),
     CommandWith(<<Ph("D3")>>),
     CommandWith(<<Esc("REGION")>>),
     CommandWith(<<Lit("awk"), Lit(" "), Esc("print"), Lit(" "), Ph("awk_var")>>),
     CommandWith(<<Ph("profile_name"), Lit(" "), Ph("lower_key")>>),
     <<Lit("cmd"), Lit(" "), Ph("INPUTS")>>,
     <<Lit("cmd"), Lit(" "), Ph("POSITIONAL_FILENAMES"), Lit(" "), Ph("PARAMETERS"),
       Lit(" "), Lit(">"), Lit(" "), Ph("OUTPUT")>>}

OutputTemplates ==
    {<<Lit("out/n")>>,
     <<Ph("DIR"), Lit("/n")>>,
     <<Lit("out/"), Ph("REGION")>>,
     <<Lit("out/"), Ph("awk_var")>>,
     <<Lit("out/"), Ph("profile_name")>>,
     <<Ph("LOOP")>>,
     <<Ph("D1")>>}

InputsTemplates ==
    {<<>>,
     << <<Lit("in/x")>> >>,
     << <<Lit("in/x")>>, <<Lit("in/y")>> >>,
     << <<Lit("in/y")>>, <<Lit("in/x")>> >>,
     << <<Lit("in/x")>>, <<Ph("REQUIRES[0]")>> >>,
     << <<Ph("DIR"), Lit("/y")>>, <<Lit("in/x")>> >>,
     << <<Lit("in/"), Ph("awk_var")>> >>,
     << <<Ph("REQUIRES[1]")>> >>}

ParametersTemplates ==
    {<<>>,
     << <<"a", Value(<<Lit("1")>>)>>, <<"b", Value(<<Lit("2")>>)>> >>,
     << <<"b", Value(<<Lit("2")>>)>>, <<"a", Value(<<Lit("1")>>)>> >>,
     << <<"b", Value(<<Ph("DIR")>>)>>, <<"a", Value(<<Ph("profile_name")>>)>> >>,
     << <<"a", Value(<<Ph("awk_var")>>)>> >>,
     << <<"a", Value(<<Ph("OUTPUT")>>)>> >>}

PositionalTemplates ==
    {<<>>, << <<Lit("p")>> >>, << <<Lit("p"), Ph("awk_var")>> >>}

GeneralConfigs ==
    {[vars |-> ("DIR" :> <<Lit("build")>>), PARAMETERS |-> <<>>],
     [vars |-> ("DIR" :> <<Lit("b"), Ph("SUB")>>) @@ ("SUB" :> <<Lit("s")>>),
      PARAMETERS |-> <<>>],
     [vars |-> ("DIR" :> <<Lit("b"), Ph("SUB")>>), PARAMETERS |-> <<>>],
     [vars |-> ("DIR" :> <<Lit("build")>>) @@ ("LOOP" :> <<Ph("LOOP"), Lit("x")>>),
      PARAMETERS |-> <<>>],
     [vars |-> ("DIR" :> <<Lit("build")>>) @@ ("lower_key" :> <<Lit("v")>>),
      PARAMETERS |-> << <<"b", Value(<<Lit("9")>>)>> >>],
     [vars |-> ("D1" :> <<Ph("D2")>>) @@ ("D2" :> <<Ph("D3")>>) @@ ("D3" :> <<Ph("D4")>>)
                   @@ ("D4" :> <<Ph("D5")>>) @@ ("D5" :> <<Ph("D6")>>)
                   @@ ("D6" :> <<Ph("D7")>>) @@ ("D7" :> <<Lit("end")>>)
                   @@ ("DIR" :> <<Lit("build")>>),
      PARAMETERS |-> <<>>]}

NodeDatas ==
    [RULE : {Rule(c) : c \in CommandTemplates}, OUTPUT : OutputTemplates,
     INPUTS : InputsTemplates,
     PARAMETERS : ParametersTemplates, POSITIONAL_FILENAMES : PositionalTemplates,
     REQUIRES : {GenRequires}]

InitGen ==
    /\ cfg = Config(WfChain, NoFinal, 1, {})
    /\ exists = [f \in Files |-> f \in Sources]
    /\ mtime = [f \in Files |-> 0]
    /\ clock = 1
    /\ stateFile = StateFile("missing", EmptyState)
    /\ ExecutorIdle
    /\ ControllerIdle
    /\ GroupWorkerIdle
    /\ prev_ok = FALSE
    /\ buildsLeft = 0
    /\ node_data \in NodeDatas
    /\ general_config \in GeneralConfigs
    /\ generated = NotGenerated
    /\ profile_config = NoGeneral
    /\ workflow = [n \in Nodes |-> NoNodeData]
    /\ resolved_outputs = <<>>
    /\ command_map = <<>>

\* generate_for_node returns the command of the step
GenerateForNodeReturns ==
    /\ pc = "idle"
    /\ generated' = GenerateForNode(GenNode, node_data, general_config, profile_config,
                                    Context(general_config, profile_config),
                                    ResolvedOutputs)
    /\ ~generated'.raised
    /\ pc' = "generated"
    /\ UNCHANGED <<qtVars, cfg, fsVars, stateFile, plan, build_state, gen, tasks, workerVars,
                   finished_count, halt_build, outcome, saves, histVars>>
    /\ UNCHANGED <<cbVars, node_data, general_config, profile_config, workflow,
                   resolved_outputs, command_map>>

\* generate_for_node raises ValueError
GenerateForNodeRaises ==
    /\ pc = "idle"
    /\ generated' = GenerateForNode(GenNode, node_data, general_config, profile_config,
                                    Context(general_config, profile_config),
                                    ResolvedOutputs)
    /\ generated'.raised
    /\ pc' = "generated"
    /\ UNCHANGED <<qtVars, cfg, fsVars, stateFile, plan, build_state, gen, tasks, workerVars,
                   finished_count, halt_build, outcome, saves, histVars>>
    /\ UNCHANGED <<cbVars, node_data, general_config, profile_config, workflow,
                   resolved_outputs, command_map>>

NextGen == GenerateForNodeReturns \/ GenerateForNodeRaises

SpecGen == InitGen /\ [][NextGen]_vars

\* the fields {n} of a text
Fields(text) == {text[i].n : i \in {j \in 1..Len(text) : text[j].k = "ph"}}

DeepTemplates(nd) ==
    {nd.OUTPUT} \cup Range(nd.INPUTS) \cup Range(nd.POSITIONAL_FILENAMES)
        \cup UNION {Range(nd.PARAMETERS[i][2].items) : i \in 1..Len(nd.PARAMETERS)}

\* the lowercase-led fields of a text that are no key of the context
ForeignLowercase(text) ==
    (Fields(text) \cap LowercaseNames) \ DOMAIN Context(general_config, profile_config)

\* the lowercase-led fields of a text that are keys of the context
ContextLowercase(text) ==
    Fields(text) \cap LowercaseNames \cap DOMAIN Context(general_config, profile_config)

(***************************************************************************)
(* C18 - Template safety (lowercase), as stated.  A braced token whose     *)
(* name starts with a lowercase letter never triggers a ConfigError and is *)
(* never rewritten, in the command template and in the OUTPUT, INPUTS,     *)
(* PARAMETERS and POSITIONAL_FILENAMES templates.                          *)
(***************************************************************************)
C18_LowercaseAsStated ==
    pc = "generated" =>
        /\ generated.raised => generated.token \notin LowercaseNames
        /\ ~generated.raised =>
              /\ Fields(node_data.RULE.COMMAND) \cap LowercaseNames
                     \subseteq Fields(generated.command.cmd_string)
              /\ Fields(node_data.OUTPUT) \cap LowercaseNames
                     \subseteq Fields(generated.command.output)

(***************************************************************************)
(* C18 - Template safety (lowercase), amended.  In the command template a  *)
(* lowercase-led token that is no key of the context is never rewritten    *)
(* and never triggers the strict-pass ConfigError; a lowercase-led token   *)
(* that is a key of the context is replaced by its value; and a            *)
(* lowercase-led token that is no key of the context in an OUTPUT, INPUTS, *)
(* PARAMETERS or POSITIONAL_FILENAMES template makes generate_for_node     *)
(* fail.                                                                   *)
(***************************************************************************)
C18_Lowercase ==
    pc = "generated" =>
        /\ (generated.raised /\ generated.kind = "unresolved")
               => generated.token \notin LowercaseNames
        /\ ~generated.raised =>
              /\ ForeignLowercase(node_data.RULE.COMMAND)
                     \subseteq Fields(generated.command.cmd_string)
              /\ ContextLowercase(node_data.RULE.COMMAND)
                     \cap Fields(generated.command.cmd_string) = {}
              /\ ContextLowercase(node_data.OUTPUT)
                     \cap Fields(generated.command.output) = {}
        /\ (\E t \in DeepTemplates(node_data) : ForeignLowercase(t) # {})
               => generated.raised

\* a command with {awk_var} left in place and {profile_name} replaced
C18_Witness ==
    /\ pc = "generated"
    /\ ~generated.raised
    /\ "awk_var" \in Fields(node_data.RULE.COMMAND)
    /\ "awk_var" \in Fields(generated.command.cmd_string)
    /\ "profile_name" \in Fields(node_data.OUTPUT)
    /\ generated.command.output = <<Lit("out/"), Lit("prof")>>

\* the orders a list or the items of a dict can be written in
Reorderings(s) == {[i \in 1..Len(s) |-> s[p[i]]] : p \in Permutations(1..Len(s))}

\* generate_for_node for the step of the state
Generate(nd) ==
    GenerateForNode(GenNode, nd, general_config, profile_config,
                    Context(general_config, profile_config), ResolvedOutputs)

\* _is_step_outdated for a command when the step was last built with another one,
\* every file present and no input newer than the build
OutdatedAfter(built, command) ==
    LET paths == {command.output} \cup Range(command.input_files)
    IN IsStepOutdated(command,
                      [p \in {built.output} |-> StateEntry(built.hashes, 1)],
                      [p \in paths |-> TRUE], [p \in paths |-> 0])

(***************************************************************************)
(* C19 - Hash stability for parameters.  Writing the keys of a step's      *)
(* PARAMETERS in another order gives the step the same hashes.params, and  *)
(* _is_step_outdated does not return PARAMS_CHANGED for the reordered      *)
(* configuration after a build with the original one.                      *)
(***************************************************************************)
C19_ParamsHashStable ==
    pc = "generated" =>
        \A q \in Reorderings(node_data.PARAMETERS) :
            LET other == Generate([node_data EXCEPT !.PARAMETERS = q])
            IN /\ other.raised = generated.raised
               /\ ~generated.raised =>
                     /\ other.command.hashes.params = generated.command.hashes.params
                     /\ OutdatedAfter(generated.command, other.command).code
                            # PARAMS_CHANGED

\* a step whose two PARAMETERS keys are written b, a
C19_Witness ==
    /\ pc = "generated"
    /\ ~generated.raised
    /\ Len(node_data.PARAMETERS) = 2
    /\ node_data.PARAMETERS[1][1] = "b"
    /\ generated.command.hashes.params.sha256.items[1][1] = "a"

(***************************************************************************)
(* C20 - Hash stability for inputs.  Writing the INPUTS entries of a step  *)
(* in another order, so that they resolve to the same paths in a different *)
(* order, gives the step the same hashes.inputs, and _is_step_outdated     *)
(* does not return INPUTS_CHANGED for the reordered configuration after a  *)
(* build with the original one.                                            *)
(***************************************************************************)
C20_InputsHashStable ==
    pc = "generated" =>
        \A q \in Reorderings(node_data.INPUTS) :
            LET other == Generate([node_data EXCEPT !.INPUTS = q])
            IN /\ other.raised = generated.raised
               /\ ~generated.raised =>
                     /\ other.command.hashes.inputs = generated.command.hashes.inputs
                     /\ OutdatedAfter(generated.command, other.command).code
                            # INPUTS_CHANGED

\* a step whose two inputs resolve to in/y, in/x in this order
C20_Witness ==
    /\ pc = "generated"
    /\ ~generated.raised
    /\ generated.command.input_files = << <<Lit("in/y")>>, <<Lit("in/x")>> >>
    /\ generated.command.hashes.inputs.sha256.items
           = << <<Lit("in/x")>>, <<Lit("in/y")>> >>

(***************************************************************************)
(* The command generator on the options of a RULE: generate_for_node on    *)
(* one step, over the INPUT_STYLE, INPUT_SWITCH_NAME, INPUT_QUOTED,        *)
(* UNQUOTED_PARAMS and UNQUOTED_POSITIONALS keys of its rule, command      *)
(* templates with and without each placeholder, PARAMETERS values of every *)
(* type, and the PARAMETERS and keys of GENERAL and of the profile.        *)
(***************************************************************************)
\* "cmd <middle> > {OUTPUT}"
CommandTo(middle) ==
    <<Lit("cmd"), Lit(" ")>> \o middle \o <<Lit(" "), Lit(">"), Lit(" "), Ph("OUTPUT")>>

RuleCommands ==
    {CommandTo(<<Ph("INPUTS"), Lit(" "), Ph("PARAMETERS")>>),
     CommandTo(<<Ph("POSITIONAL_FILENAMES"), Lit(" "), Ph("PARAMETERS")>>),
     CommandTo(<<Ph("INPUTS"), Lit(" "), Ph("POSITIONAL_FILENAMES"), Lit(" "),
                 Ph("PARAMETERS")>>),
     CommandTo(<<Ph("INPUTS[0]"), Lit(" "), Ph("INPUTS"), Lit(" "), Ph("PARAMETERS")>>),
     CommandTo(<<Ph("INPUTS[1]"), Lit(" "), Ph("PARAMETERS")>>),
     CommandTo(<<Ph("PARAMETERS")>>),
     CommandTo(<<Ph("INPUTS")>>),
     <<Lit("cmd"), Lit(" "), Ph("INPUTS"), Lit(" "), Ph("PARAMETERS")>>,
     <<Lit("cmd"), Lit(" "), Lit(">"), Lit(" "), Ph("OUTPUT")>>}

\* the rules: every setting of the keys of the inputs with the other keys at their
\* defaults, and every setting of the two UNQUOTED keys with those of the inputs at
\* their defaults
Rules ==
    {[Rule(c) EXCEPT !.INPUT_STYLE = style, !.INPUT_SWITCH_NAME = switch,
                     !.INPUT_QUOTED = quoted] :
        c \in RuleCommands, style \in {"positional", "switch"}, switch \in {"", "-i"},
        quoted \in BOOLEAN}
    \cup {[Rule(c) EXCEPT !.UNQUOTED_PARAMS = unquoted_params,
                          !.UNQUOTED_POSITIONALS = unquoted_positionals] :
             c \in RuleCommands, unquoted_params \in {{}, {"k"}},
             unquoted_positionals \in BOOLEAN}

RuleInputs ==
    {<<>>,
     << <<Lit("in/x")>> >>,
     << <<Lit("in/x")>>, <<Lit("in y")>> >>,
     << <<Ph("K")>>, <<Ph("G")>> >>}

RuleParameters ==
    {<<>>,
     << <<"k", Value(<<Lit("a b")>>)>> >>,
     << <<"k", True>> >>,
     << <<"k", False>> >>,
     << <<"k", None>> >>,
     << <<"k", List(<< <<Lit("a b")>>, <<Lit("c")>> >>)>> >>,
     << <<"t", True>>, <<"k", Value(<<Lit("w")>>)>> >>,
     << <<"k", Value(<<Ph("OUTPUT")>>)>> >>,
     << <<"t", Value(<<Lit("c")>>)>>, <<"k", List(<< <<Lit("c")>>, <<Ph("INPUTS")>> >>)>> >>}

RulePositionals == {<<>>, << <<Lit("p q")>>, <<Lit("r")>> >>}

\* GENERAL and the section of the profile: keys of the context and the PARAMETERS
\* of the step's rule
RuleGenerals ==
    {[vars |-> ("K" :> <<Lit("g")>>) @@ ("G" :> <<Lit("gen")>>), PARAMETERS |-> <<>>],
     [vars |-> ("K" :> <<Lit("g")>>) @@ ("G" :> <<Lit("gen")>>),
      PARAMETERS |-> << <<"k", Value(<<Lit("g")>>)>>, <<"b", Value(<<Lit("gen")>>)>> >>]}

NoProfile == [vars |-> [n \in {} |-> <<>>], PARAMETERS |-> <<>>]

RuleProfiles ==
    {NoProfile,
     [vars |-> ("K" :> <<Lit("p")>>),
      PARAMETERS |-> << <<"k", Value(<<Lit("pa")>>)>>, <<"a", Value(<<Lit("pb")>>)>> >>]}

RuleNodeDatas ==
    [RULE : Rules, OUTPUT : {<<Lit("out/n")>>}, INPUTS : RuleInputs,
     PARAMETERS : RuleParameters, POSITIONAL_FILENAMES : RulePositionals,
     REQUIRES : {GenRequires}]

InitRule ==
    /\ cfg = Config(WfChain, NoFinal, 1, {})
    /\ exists = [f \in Files |-> f \in Sources]
    /\ mtime = [f \in Files |-> 0]
    /\ clock = 1
    /\ stateFile = StateFile("missing", EmptyState)
    /\ ExecutorIdle
    /\ ControllerIdle
    /\ GroupWorkerIdle
    /\ prev_ok = FALSE
    /\ buildsLeft = 0
    /\ node_data \in RuleNodeDatas
    /\ general_config \in RuleGenerals
    /\ profile_config \in RuleProfiles
    /\ generated = NotGenerated
    /\ workflow = [n \in Nodes |-> NoNodeData]
    /\ resolved_outputs = <<>>
    /\ command_map = <<>>

SpecRule == InitRule /\ [][NextGen]_vars

\* a is a run of consecutive tokens of b; a is the end of b
IsInfix(a, b) == \E i \in 0..(Len(b) - Len(a)) : SubSeq(b, i + 1, i + Len(a)) = a
IsSuffix(a, b) == Len(a) <= Len(b) /\ SubSeq(b, Len(b) - Len(a) + 1, Len(b)) = a

\* the merged parameters of the step of the state, in insertion order
FinalParams ==
    MergeParameters(node_data, general_config, profile_config,
                    Context(general_config, profile_config)).value

\* the keys of the three layers of the parameters of the step of the state
LayerKeys ==
    DictKeys(general_config.PARAMETERS) \cup DictKeys(profile_config.PARAMETERS)
        \cup DictKeys(node_data.PARAMETERS)

\* the value of a key in the last layer that defines it: step, profile, GENERAL
LayerValue(key) ==
    IF key \in DictKeys(node_data.PARAMETERS) THEN DictGet(node_data.PARAMETERS, key)
    ELSE IF key \in DictKeys(profile_config.PARAMETERS)
        THEN DictGet(profile_config.PARAMETERS, key)
    ELSE DictGet(general_config.PARAMETERS, key)

\* the tokens the rendering rules give for one key: nothing for null and false, the
\* flag for true, a pair for every element of a list, a pair for a scalar, every
\* token quoted unless the key is in UNQUOTED_PARAMS
ExpectedKeyFlags(key, value, dash_style, unquoted_params) ==
    LET flag == <<Lit(dash_style), Lit(key)>>
        Q(t) == IF key \in unquoted_params THEN t ELSE Quote(t)
    IN CASE value.type \in {"null", "false"} -> <<>>
         [] value.type = "true" -> <<Q(flag)>>
         [] value.type = "list" ->
                Flatten([i \in 1..Len(value.items) |-> <<Q(flag), Q(value.items[i])>>])
         [] OTHER -> <<Q(flag), Q(value.items[1])>>

ExpectedFlags(params, dash_style, unquoted_params) ==
    Flatten([i \in 1..Len(params) |->
                ExpectedKeyFlags(params[i][1], params[i][2], dash_style, unquoted_params)])

\* the end of a command whose template ends with "{PARAMETERS} > {OUTPUT}"
ParametersToOutput(flags, output) ==
    ReplaceDoubleSpace(<<Lit(" ")>> \o Join(flags) \o <<Lit(" "), Lit(">"), Lit(" ")>>
                           \o output)

(***************************************************************************)
(* C21 - Parameter flag rendering.  For every key of the merged            *)
(* parameters, in insertion order, the command holds nothing for null and  *)
(* for false, the flag alone for true, a flag and a value for every        *)
(* element of a list and a flag and a value for a scalar; a key in         *)
(* UNQUOTED_PARAMS has the same tokens, not shell-quoted.                  *)
(***************************************************************************)
C21_FlagRendering ==
    (/\ pc = "generated"
     /\ ~generated.raised
     /\ Contains(node_data.RULE.COMMAND, "PARAMETERS")) =>
        IsSuffix(ParametersToOutput(ExpectedFlags(FinalParams, node_data.RULE.DASH,
                                                  node_data.RULE.UNQUOTED_PARAMS),
                                    generated.command.output),
                 generated.command.cmd_string)

(***************************************************************************)
(* C22 - Required placeholders.  generate_for_node raises when the command *)
(* template has no {OUTPUT}, when the merged PARAMETERS are not empty and  *)
(* the template has no {PARAMETERS}, and when POSITIONAL_FILENAMES is not  *)
(* empty and the template has no {POSITIONAL_FILENAMES}; the error names   *)
(* the step.  A template with no inputs placeholder only gets the warning: *)
(* when nothing else is wrong the command is returned.                     *)
(***************************************************************************)
C22_RequiredPlaceholders ==
    pc = "generated" =>
        LET template == node_data.RULE.COMMAND
            no_output == ~Contains(template, "OUTPUT")
            no_parameters == LayerKeys # {} /\ ~Contains(template, "PARAMETERS")
            no_positional == /\ node_data.POSITIONAL_FILENAMES # <<>>
                             /\ ~Contains(template, "POSITIONAL_FILENAMES")
            no_inputs == /\ ~Contains(template, "INPUTS")
                         /\ ~HasIndexedInputs(template)
                         /\ ~Contains(template, "POSITIONAL_FILENAMES")
        IN /\ (no_output \/ no_parameters \/ no_positional) => generated.raised
           /\ (generated.raised /\ generated.kind = "missing_placeholder") =>
                 /\ generated.step = GenNode
                 /\ generated.token = "OUTPUT" => no_output
                 /\ generated.token = "PARAMETERS" => no_parameters
                 /\ generated.token = "POSITIONAL_FILENAMES" => no_positional
                 /\ generated.token \in {"OUTPUT", "PARAMETERS", "POSITIONAL_FILENAMES"}
           /\ generated.warning => no_inputs
           /\ (/\ no_inputs
               /\ ~(no_output \/ no_parameters \/ no_positional)
               /\ LatePlaceholder(node_data.PARAMETERS) = "") =>
                 /\ ~generated.raised
                 /\ generated.warning
                 /\ generated.command.cmd_string # <<>>

\* "cmd > {OUTPUT}" with no parameters: the warning, and the command cmd > out/n
C22_Witness ==
    /\ pc = "generated"
    /\ ~generated.raised
    /\ generated.warning
    /\ LayerKeys = {}
    /\ generated.command.cmd_string
         = <<Lit("cmd"), Lit(" "), Lit(">"), Lit(" "), Lit("out/n")>>

(***************************************************************************)
(* C23 - Late-bound placeholders in the step's own PARAMETERS.  When a     *)
(* value of the step's PARAMETERS holds {OUTPUT}, {INPUTS}, {PARAMETERS}   *)
(* or {POSITIONAL_FILENAMES}, generate_for_node raises the error of that   *)
(* check, naming the placeholder and the step, whatever else is wrong with *)
(* the step, and nothing of the step was resolved: no command, no warning, *)
(* and the map of resolved outputs is as it was.                           *)
(***************************************************************************)
C23_LateBoundRejected ==
    (/\ pc = "generated"
     /\ \E i \in 1..Len(node_data.PARAMETERS) : \E p \in LateBound :
            \E j \in 1..Len(node_data.PARAMETERS[i][2].items) :
                p \in Fields(node_data.PARAMETERS[i][2].items[j])) =>
        /\ generated.raised
        /\ generated.kind = "late_bound"
        /\ generated.token \in LateBound
        /\ generated.step = GenNode
        /\ generated.command = NoCommand
        /\ ~generated.warning
        /\ generated.resolved_outputs = ResolvedOutputs

\* {INPUTS} in an item of a list value, in a step whose template has no {OUTPUT}
C23_Witness ==
    /\ pc = "generated"
    /\ generated.raised
    /\ generated.kind = "late_bound"
    /\ generated.token = "INPUTS"
    /\ Len(node_data.PARAMETERS) = 2
    /\ ~Contains(node_data.RULE.COMMAND, "OUTPUT")
    /\ generated.resolved_outputs = ResolvedOutputs

(***************************************************************************)
(* C24 - Context merge order.  A key of the template context has the value *)
(* of the profile when the profile defines it and the value of GENERAL     *)
(* otherwise; a parameter has the value of the step's PARAMETERS, else of  *)
(* the PARAMETERS of the profile for the rule, else of those of GENERAL;   *)
(* a key that only an earlier layer defines is kept.                       *)
(***************************************************************************)
C24_MergeOrder ==
    (pc = "generated" /\ ~generated.raised) =>
        LET final == generated.command.hashes.params.sha256.items
            K == IF "K" \in DOMAIN profile_config.vars THEN profile_config.vars["K"]
                 ELSE general_config.vars["K"]
        IN /\ DictKeys(final) = LayerKeys
           /\ \A key \in LayerKeys : DictGet(final, key) = LayerValue(key)
           /\ IsSuffix(ParametersToOutput(
                           Flags([i \in 1..Len(FinalParams) |->
                                     <<FinalParams[i][1], LayerValue(FinalParams[i][1])>>],
                                 node_data.RULE.DASH, node_data.RULE.UNQUOTED_PARAMS),
                           generated.command.output),
                       generated.command.cmd_string)
           /\ node_data.INPUTS = << <<Ph("K")>>, <<Ph("G")>> >> =>
                 generated.command.input_files = <<K, general_config.vars["G"]>>

\* k is defined by the three layers, a by the profile, b by GENERAL, t by the step;
\* K by GENERAL and the profile, G by GENERAL
C24_Witness ==
    /\ pc = "generated"
    /\ ~generated.raised
    /\ generated.command.hashes.params.sha256.items
         = << <<"a", Value(<<Lit("pb")>>)>>, <<"b", Value(<<Lit("gen")>>)>>,
              <<"k", Value(<<Lit("w")>>)>>, <<"t", True>> >>
    /\ generated.command.input_files = << <<Lit("p")>>, <<Lit("gen")>> >>

(***************************************************************************)
(* C29 - Positional filenames rendering.  When the command template has    *)
(* {POSITIONAL_FILENAMES} and POSITIONAL_FILENAMES is not empty, the       *)
(* command holds the resolved filenames in order, joined by single spaces, *)
(* each shell-quoted unless UNQUOTED_POSITIONALS is true.                  *)
(***************************************************************************)
C29_PositionalRendering ==
    (/\ pc = "generated"
     /\ ~generated.raised
     /\ Contains(node_data.RULE.COMMAND, "POSITIONAL_FILENAMES")
     /\ node_data.POSITIONAL_FILENAMES # <<>>) =>
        LET files == node_data.POSITIONAL_FILENAMES
            rendered == Join(IF node_data.RULE.UNQUOTED_POSITIONALS THEN files
                             ELSE [i \in 1..Len(files) |-> Quote(files[i])])
        IN IsInfix(<<Lit(" ")>> \o rendered \o <<Lit(" ")>>,
                   generated.command.cmd_string)

(***************************************************************************)
(* C30 - Input style rendering.  When the command template has {INPUTS},   *)
(* the command holds the resolved inputs by the INPUT_STYLE of the rule:   *)
(* "positional", joined by spaces and shell-quoted unless INPUT_QUOTED is  *)
(* false; "switch", INPUT_SWITCH_NAME before every input; a "switch" rule  *)
(* without INPUT_SWITCH_NAME raises.                                       *)
(***************************************************************************)
C30_InputStyle ==
    (pc = "generated" /\ Contains(node_data.RULE.COMMAND, "INPUTS")) =>
        LET rule == node_data.RULE
            inputs == generated.command.input_files
            formatted == [i \in 1..Len(inputs) |->
                             IF rule.INPUT_QUOTED THEN Quote(inputs[i]) ELSE inputs[i]]
            rendered ==
                IF rule.INPUT_STYLE = "positional" THEN Join(formatted)
                ELSE Join(Flatten([i \in 1..Len(inputs) |->
                                      << <<Lit(rule.INPUT_SWITCH_NAME)>>, formatted[i] >>]))
        IN /\ (rule.INPUT_STYLE = "switch" /\ rule.INPUT_SWITCH_NAME = "") =>
                 generated.raised
           /\ (~generated.raised /\ inputs # <<>>) =>
                 IsInfix(<<Lit(" ")>> \o rendered \o <<Lit(" ")>>,
                         generated.command.cmd_string)

(***************************************************************************)
(* The loop of _generate_command_map_and_graph: generate_for_node on every *)
(* node of the execution graph in the order of nx.topological_sort, with   *)
(* the one map resolved_outputs handed to every call.                      *)
(***************************************************************************)
\* the OUTPUT template of every step of the workflows
OutputTemplate ==
    [A |-> <<Lit("out/a")>>, B |-> <<Ph("DIR"), Lit("/"), Lit("b")>>, C |-> <<Lit("out/c")>>]

MapGeneral == [vars |-> ("DIR" :> <<Lit("build")>>), PARAMETERS |-> <<>>]

MapInputs ==
    {<< <<Lit("in/x")>> >>,
     << <<Ph("REQUIRES[0]")>> >>,
     << <<Lit("in/x")>>, <<Ph("REQUIRES[1]")>> >>,
     << <<Ph("REQUIRES[1]")>>, <<Ph("REQUIRES[0]")>> >>}

MapConfigs ==
    {Config(wf, final, 1, {}) :
        wf \in {WfChain, WfJoin, WfFan, WfBack}, final \in {NoFinal, "A", "C"}}

\* the data of the nodes of a configuration: REQUIRES as the graph has them
MapWorkflows(c) ==
    {[n \in Nodes |->
         [RULE |-> Rule(CommandWith(<<>>)), OUTPUT |-> OutputTemplate[n],
          INPUTS |-> inputs[n], PARAMETERS |-> <<>>, POSITIONAL_FILENAMES |-> <<>>,
          REQUIRES |-> c.requires[n]]] : inputs \in [Nodes -> MapInputs]}

InitMap ==
    /\ cfg \in MapConfigs
    /\ exists = [f \in Files |-> f \in Sources]
    /\ mtime = [f \in Files |-> 0]
    /\ clock = 1
    /\ stateFile = StateFile("missing", EmptyState)
    /\ ExecutorIdle
    /\ ControllerIdle
    /\ GroupWorkerIdle
    /\ prev_ok = FALSE
    /\ buildsLeft = 0
    /\ node_data = NoNodeData
    /\ general_config = MapGeneral
    /\ profile_config = NoProfile
    /\ generated = NotGenerated
    /\ workflow \in MapWorkflows(cfg)
    /\ resolved_outputs = <<>>
    /\ command_map = <<>>

\* the nodes the loop of _generate_command_map_and_graph visits, in order
NodeSequence == TopologicalSort(ExecutionSubgraph(cfg))

\* one turn of the loop: command_map[node_name] = command_gen.generate_for_node(...)
GenerateNode ==
    /\ pc \in {"idle", "map"}
    /\ Len(command_map) < Len(NodeSequence)
    /\ LET node_name == NodeSequence[Len(command_map) + 1]
       IN /\ node_data' = workflow[node_name]
          /\ generated' = GenerateForNode(node_name, workflow[node_name], general_config,
                                          profile_config,
                                          Context(general_config, profile_config),
                                          resolved_outputs)
    /\ ~generated'.raised
    /\ resolved_outputs' = generated'.resolved_outputs
    /\ command_map' = Append(command_map, <<NodeSequence[Len(command_map) + 1],
                                            generated'.command>>)
    /\ pc' = "map"
    /\ UNCHANGED <<qtVars, cfg, fsVars, stateFile, plan, build_state, gen, tasks, workerVars,
                   finished_count, halt_build, outcome, saves, histVars>>
    /\ UNCHANGED <<cbVars, general_config, profile_config, workflow>>

\* one turn of the loop in which generate_for_node raises: RuntimeError
GenerateNodeRaises ==
    /\ pc \in {"idle", "map"}
    /\ Len(command_map) < Len(NodeSequence)
    /\ LET node_name == NodeSequence[Len(command_map) + 1]
       IN /\ node_data' = workflow[node_name]
          /\ generated' = GenerateForNode(node_name, workflow[node_name], general_config,
                                          profile_config,
                                          Context(general_config, profile_config),
                                          resolved_outputs)
    /\ generated'.raised
    /\ resolved_outputs' = generated'.resolved_outputs
    /\ pc' = "map_raised"
    /\ UNCHANGED <<qtVars, cfg, fsVars, stateFile, plan, build_state, gen, tasks, workerVars,
                   finished_count, halt_build, outcome, saves, histVars>>
    /\ UNCHANGED <<cbVars, general_config, profile_config, workflow, command_map>>

\* return command_map, execution_graph
CommandMapReturns ==
    /\ pc \in {"idle", "map"}
    /\ Len(command_map) = Len(NodeSequence)
    /\ pc' = "mapped"
    /\ UNCHANGED <<qtVars, cfg, fsVars, stateFile, plan, build_state, gen, tasks, workerVars,
                   finished_count, halt_build, outcome, saves, histVars>>
    /\ UNCHANGED <<cbVars, genVars>>

NextMap == GenerateNode \/ GenerateNodeRaises \/ CommandMapReturns

SpecMap == InitMap /\ [][NextMap]_vars

\* the input templates of a step that are exactly {REQUIRES[i]}
RequiresInputs(nd) == {j \in 1..Len(nd.INPUTS) : RequiresIndex(nd.INPUTS[j]) >= 0}

(***************************************************************************)
(* C28 - Resolution of {REQUIRES[i]}.  Commands are generated in           *)
(* topological order: when generate_for_node resolves an input template    *)
(* {REQUIRES[i]} with i < len(REQUIRES), the map of resolved outputs       *)
(* already holds the resolved OUTPUT of the i-th step of REQUIRES, whose   *)
(* command was generated before, and that path is the input; with          *)
(* i >= len(REQUIRES) the call raises an error that names the step.        *)
(***************************************************************************)
C28_RequiresResolution ==
    /\ generated.kind # "key"
    /\ \A e \in 1..Len(command_map) :
          LET nd == workflow[command_map[e][1]]
          IN \A j \in RequiresInputs(nd) :
                LET i == RequiresIndex(nd.INPUTS[j])
                IN /\ i < Len(nd.REQUIRES)
                   /\ \E d \in 1..(e - 1) :
                         /\ command_map[d][1] = nd.REQUIRES[i + 1]
                         /\ command_map[e][2].input_files[j] = command_map[d][2].output
                         /\ command_map[d][2].output
                              = DeepTemplate(workflow[command_map[d][1]].OUTPUT,
                                             Context(general_config, profile_config)).value
    /\ pc = "map_raised" =>
          /\ generated.kind = "requires_range"
          /\ generated.step = NodeSequence[Len(command_map) + 1]
          /\ \E j \in RequiresInputs(node_data) :
                RequiresIndex(node_data.INPUTS[j]) >= Len(node_data.REQUIRES)
    /\ \A j \in RequiresInputs(node_data) :
          RequiresIndex(node_data.INPUTS[j]) >= Len(node_data.REQUIRES) =>
              pc = "map_raised"

\* C of the workflow where A requires C, declared after it: the command of C is
\* generated first and {REQUIRES[0]} of A is out/c; B, with {DIR}/b, comes between
C28_Witness ==
    /\ pc = "mapped"
    /\ Len(command_map) = 3
    /\ command_map[3][1] = "A"
    /\ workflow["A"].REQUIRES = <<"C">>
    /\ workflow["A"].INPUTS = << <<Ph("REQUIRES[0]")>> >>
    /\ command_map[3][2].input_files = << <<Lit("out/c")>> >>
    /\ DictGet(resolved_outputs, "B") = <<Lit("build"), Lit("/"), Lit("b")>>


(***************************************************************************)
(* Properties of the iterated expansion (specification SpecGen).           *)
(***************************************************************************)
\* the text after n passes, field by field: a field of the context is replaced by
\* its value with the n - 1 passes that remain applied to it, an escaped field
\* becomes a field that the remaining passes see
RECURSIVE ExpandText(_, _, _)
ExpandText(text, ctx, n) ==
    IF n = 0 \/ text = <<>> THEN text
    ELSE LET tok == Head(text)
             first == IF tok.k = "esc" THEN ExpandText(<<Ph(tok.n)>>, ctx, n - 1)
                      ELSE IF tok.k = "ph" /\ tok.n \in DOMAIN ctx
                          THEN ExpandText(ctx[tok.n], ctx, n - 1)
                      ELSE <<tok>>
         IN first \o ExpandText(Tail(text), ctx, n)

\* a pass changes nothing: no escaped field and no field of the context
Settled(text, ctx) ==
    \A i \in 1..Len(text) :
        /\ text[i].k # "esc"
        /\ text[i].k = "ph" => text[i].n \notin DOMAIN ctx

\* the context of the step of the state, and the values generate_for_node has
\* when it reaches _build_command_string
StepContext == Context(general_config, profile_config)
StepInputs == ResolveAllInputs(node_data, StepContext, ResolvedOutputs).value
StepOutput == DeepTemplate(node_data.OUTPUT, StepContext).value
StepPositionals ==
    DeepTemplateList(node_data.POSITIONAL_FILENAMES,
                     [n \in {"INPUTS", "OUTPUT"} |->
                         IF n = "OUTPUT" THEN StepOutput ELSE ReprList(StepInputs)]
                         @@ StepContext).value
StepTemplateContext ==
    TemplateContext(InputsStr(node_data.RULE, StepInputs).value, StepOutput, FinalParams,
                    FormatShellParams(FinalParams, node_data.RULE.DASH,
                                      node_data.RULE.UNQUOTED_PARAMS),
                    PositionalFilenamesStr(node_data.RULE, StepPositionals),
                    StepContext)
StepFinalTemplate == ResolveInputIndexes(node_data.RULE.COMMAND, StepInputs).value

\* the expansion loop of _build_command_string was reached and did not raise
Expanded == ~generated.raised \/ generated.kind = "unresolved"

(***************************************************************************)
(* C31 - Bounded iterated expansion.  The command text is the template     *)
(* after five passes of substitution and no more: a field whose chain of   *)
(* values ends within five passes is replaced by the end of the chain, a   *)
(* field whose chain is longer or never ends (a variable defined by        *)
(* itself) is left after the fifth pass, where the validation finds it.    *)
(* The OUTPUT is its template after the five passes of _deep_template and  *)
(* the final one.  The expansion ends for every context.                   *)
(***************************************************************************)
C31_BoundedExpansion ==
    /\ pc = "idle" =>
          GenerateForNode(GenNode, node_data, general_config, profile_config,
                          StepContext, ResolvedOutputs).raised \in BOOLEAN
    /\ (pc = "generated" /\ Expanded) =>
          LET five == ExpandText(StepFinalTemplate, StepTemplateContext, ExpansionPasses)
              text == ReplaceDoubleSpace(Strip(five))
          IN /\ ~generated.raised =>
                   /\ generated.command.cmd_string = text
                   /\ generated.command.output
                         = ExpandText(node_data.OUTPUT, StepContext, ExpansionPasses + 1)
                   /\ Settled(five, StepTemplateContext) =>
                         Settled(generated.command.cmd_string, StepTemplateContext)
             /\ generated.raised =>
                   /\ generated.token \in Fields(five)
                   /\ Settled(five, StepTemplateContext)
                         => generated.token \notin DOMAIN StepTemplateContext
             /\ Fields(five) \cap StrictPassNames # {} => generated.raised

\* D3 is {D4}, ... D7 is "end": the fifth pass writes "end" into the command
C31_Witness ==
    /\ pc = "generated"
    /\ ~generated.raised
    /\ "D3" \in Fields(node_data.RULE.COMMAND)
    /\ "D7" \in DOMAIN general_config.vars
    /\ \E i \in 1..Len(generated.command.cmd_string) :
          generated.command.cmd_string[i] = Lit("end")


(***************************************************************************)
(* Properties of the hashes (specification SpecGen).                       *)
(***************************************************************************)
\* the step written in another way: another OUTPUT, another style of the inputs,
\* the INPUTS and the PARAMETERS in reverse order, the first input given twice
Reverse(q) == [i \in 1..Len(q) |-> q[Len(q) + 1 - i]]

HashVariants(nd) ==
    {[nd EXCEPT !.OUTPUT = <<Lit("out/c")>>],
     [nd EXCEPT !.RULE.INPUT_STYLE = "switch", !.RULE.INPUT_SWITCH_NAME = "-i"],
     [nd EXCEPT !.INPUTS = Reverse(nd.INPUTS)],
     [nd EXCEPT !.PARAMETERS = Reverse(nd.PARAMETERS)],
     [nd EXCEPT !.INPUTS = IF nd.INPUTS = <<>> THEN <<>>
                           ELSE <<Head(nd.INPUTS)>> \o nd.INPUTS]}

\* the same paths; the same paths, each as many times
SamePathSet(a, b) == Range(a) = Range(b)
SamePaths(a, b) ==
    \A x \in Range(a) \cup Range(b) :
        Cardinality({i \in 1..Len(a) : a[i] = x})
            = Cardinality({i \in 1..Len(b) : b[i] = x})

\* the same value for the same keys
SameMapping(p, q) ==
    /\ DictKeys(p) = DictKeys(q)
    /\ \A k \in DictKeys(p) : DictGet(p, k) = DictGet(q, k)

\* the merged and resolved parameters of a step
ParamsOf(nd) == MergeParameters(nd, general_config, profile_config, StepContext).value

(***************************************************************************)
(* C32 - Hash derivation, as stated.  Two steps with the same raw command  *)
(* template have the same hashes.command, two with the same set of         *)
(* resolved input paths the same hashes.inputs, two with the same merged   *)
(* and resolved parameter mapping the same hashes.params, whatever their   *)
(* rendered commands are.                                                  *)
(***************************************************************************)
C32_HashDerivationAsStated ==
    (pc = "generated" /\ ~generated.raised) =>
        \A v \in HashVariants(node_data) :
            LET other == Generate(v)
            IN ~other.raised =>
                 /\ v.RULE.COMMAND = node_data.RULE.COMMAND =>
                       other.command.hashes.command = generated.command.hashes.command
                 /\ SamePathSet(other.command.input_files, generated.command.input_files)
                       => other.command.hashes.inputs = generated.command.hashes.inputs
                 /\ SameMapping(ParamsOf(v), ParamsOf(node_data)) =>
                       other.command.hashes.params = generated.command.hashes.params

(***************************************************************************)
(* C32 - Hash derivation, amended.  Two steps with the same raw command    *)
(* template have the same hashes.command, two with the same resolved input *)
(* paths, each as many times, in any order, the same hashes.inputs, two    *)
(* with the same merged and resolved parameter mapping the same            *)
(* hashes.params, whatever their rendered commands are; two steps whose    *)
(* lists of inputs differ only in how often a path is given have different *)
(* hashes.inputs.                                                          *)
(***************************************************************************)
C32_HashDerivation ==
    (pc = "generated" /\ ~generated.raised) =>
        \A v \in HashVariants(node_data) :
            LET other == Generate(v)
            IN ~other.raised =>
                 /\ v.RULE.COMMAND = node_data.RULE.COMMAND =>
                       other.command.hashes.command = generated.command.hashes.command
                 /\ SamePaths(other.command.input_files, generated.command.input_files)
                       <=> other.command.hashes.inputs = generated.command.hashes.inputs
                 /\ SameMapping(ParamsOf(v), ParamsOf(node_data)) =>
                       other.command.hashes.params = generated.command.hashes.params

\* a step with two inputs and two parameters: with another OUTPUT the rendered
\* command is another one and the three hashes are the same
C32_Witness ==
    /\ pc = "generated"
    /\ ~generated.raised
    /\ Len(node_data.INPUTS) = 2
    /\ Len(node_data.PARAMETERS) = 2
    /\ node_data.OUTPUT # <<Lit("out/c")>>
    /\ LET other == Generate([node_data EXCEPT !.OUTPUT = <<Lit("out/c")>>])
       IN /\ ~other.raised
          /\ other.command.cmd_string # generated.command.cmd_string
          /\ other.command.hashes = generated.command.hashes


(***************************************************************************)
(* Properties of the extent of the state updates (specification Spec).     *)
(***************************************************************************)
\* the output paths of the tasks of the generation that returned EXECUTED
ExecutedPaths ==
    {OutputOf[tasks[i]] : i \in {j \in 1..Len(tasks) : results[tasks[j]].status = "EXECUTED"}}

\* the steps of the plan that this run did not start
NeverStarted ==
    {n \in TasksToRun(plan) : results[n].status = "NONE" /\ n \notin spawned}

(***************************************************************************)
(* C33 - Frame of the state updates.  The executor starts from the mapping *)
(* of the state file; in every step of execute_plan build_state keeps      *)
(* every entry it has, and an entry is new or changed only at the output   *)
(* path of a task of the generation that returned EXECUTED; save_state,    *)
(* when it succeeds, writes build_state as it is.  So the saved state has  *)
(* the entries of the skipped steps, of the steps that returned FAILED, of *)
(* the steps never started and of the outputs outside the plan as they     *)
(* were loaded.                                                            *)
(***************************************************************************)
C33_StateFrame ==
    [][/\ (pc = "idle" /\ build_state' # build_state) =>
              build_state' = LoadState(stateFile)
       /\ pc \in {"dispatch", "pool", "save"} =>
              /\ DOMAIN build_state \subseteq DOMAIN build_state'
              /\ \A p \in DOMAIN build_state' :
                    (p \notin DOMAIN build_state \/ build_state'[p] # build_state[p])
                        => (pc = "pool" /\ p \in ExecutedPaths)
       /\ (pc = "save" /\ outcome' \in {"true", "false"}) =>
              stateFile' = StateFile("ok", build_state)
       /\ pc # "save" => stateFile' = stateFile]_vars

\* only B of A -> B was asked for, the whole workflow was built before: A is
\* executed, B fails; the saved state has the new entry of A, and the entries of B
\* and of C, which is not in the plan, as they were
C33_Witness ==
    /\ pc = "returned"
    /\ outcome = "false"
    /\ cfg.final = "B"
    /\ results["A"].status = "EXECUTED"
    /\ results["B"].status = "FAILED"
    /\ "C" \notin plan.execution_graph.nodes
    /\ stateFile.content["out/a"].mtime >= 2
    /\ stateFile.content["out/b"].mtime = 1
    /\ stateFile.content["out/c"].mtime = 1


(***************************************************************************)
(* Properties of the build that follows a failed one (specification Spec). *)
(***************************************************************************)
\* plan_build on the persisted state, the configuration and the files as the
\* build left them
FollowingPlan == BuildPlan(cfg, LoadState(stateFile), exists, mtime)

\* the steps that returned FAILED in this run
FailedSteps == {n \in Nodes : results[n].status = "FAILED"}

(***************************************************************************)
(* C34 - Staleness survives a failed build.  When execute_plan has         *)
(* returned false, the plan made next from the persisted state, with the   *)
(* configuration and the source inputs unchanged, has in steps_to_run      *)
(* every step that returned FAILED and every step of steps_to_run that was *)
(* never started.                                                          *)
(***************************************************************************)
C34_StalenessSurvivesFailure ==
    (pc = "returned" /\ outcome = "false") =>
        FailedSteps \cup NeverStarted \subseteq TasksToRun(FollowingPlan)


(***************************************************************************)
(* Properties of the result of a task (specification Spec).                *)
(***************************************************************************)
\* the command of step n exited with code 0 and left no file at its output path
ExitedWithoutOutput(n) == wlog[n].return_code = 0 /\ wlog[n].stat = "failed"

(***************************************************************************)
(* C35 - A command that exits with code 0 and leaves no file at its output *)
(* path.  The task returns FAILED; a task returns EXECUTED only when the    *)
(* command exited with code 0 and the output file exists when the worker   *)
(* stats it.  When the results of the generation are integrated, no entry  *)
(* is written at the output path of that step, an error event is reported, *)
(* halt_build is set and execute_plan goes on to save the state and return *)
(* false without another generation.                                       *)
(***************************************************************************)
C35_MissingOutputFails ==
    [][\A n \in Nodes :
          /\ (wpc[n] = "child" /\ wpc'[n] = "returned") =>
                /\ results'[n].status \in {"EXECUTED", "FAILED"}
                /\ results'[n].status = "EXECUTED"
                      <=> (wlog'[n].return_code = 0 /\ exists'[OutputOf[n]])
                /\ results'[n].status = "EXECUTED" =>
                      results'[n].data.mtime = mtime'[OutputOf[n]]
          /\ (pc = "pool" /\ pc' # "pool" /\ n \in Range(tasks)
                /\ ExitedWithoutOutput(n)) =>
                /\ results[n] = Failed(n)
                /\ OutputOf[n] \in DOMAIN build_state' <=> OutputOf[n] \in DOMAIN build_state
                /\ OutputOf[n] \in DOMAIN build_state =>
                      build_state'[OutputOf[n]] = build_state[OutputOf[n]]
                /\ halt_build'
                /\ pc' = "save"
                /\ gen' = gen
                /\ \E i \in 1..Len(events') : events'[i].status = "error"
          /\ (pc = "save" /\ halt_build) => outcome' \in {"false", "exception"}]_vars

\* every task of the generation has returned; the command of one exited with code 0
\* without its output file, its result is FAILED, and another task was executed
C35_Witness ==
    /\ pc = "pool"
    /\ GenerationJoined(tasks, wpc)
    /\ \E n \in Range(tasks) :
          /\ ExitedWithoutOutput(n)
          /\ ~exists[OutputOf[n]]
          /\ results[n].status = "FAILED"
          /\ \E m \in Range(tasks) : results[m].status = "EXECUTED"


(***************************************************************************)
(* Properties of a build with nothing to run (specification Spec).         *)
(***************************************************************************)
(***************************************************************************)
(* C36 - No-op build.  When the plan has no step to run, execute_plan      *)
(* returns true in the step that starts it: no pool is created and no task *)
(* is submitted, no subprocess is spawned, save_state is not called and    *)
(* the state file and the files are as they were; the status events are    *)
(* ("step", 0, 0, "started") and then ("step", 0, 0, "done"), and nothing  *)
(* more.                                                                   *)
(***************************************************************************)
C36_NoOpBuild ==
    [][(pc = "idle" /\ plan' # NoPlan /\ plan'.steps_to_run = <<>>) =>
          /\ pc' = "returned"
          /\ outcome' = "true"
          /\ tasks' = <<>>
          /\ \A n \in Nodes : wpc'[n] = "none" /\ results'[n] = NoResult
          /\ spawned' = {}
          /\ saves' = 0
          /\ stateFile' = stateFile
          /\ UNCHANGED fsVars
          /\ build_state' = LoadState(stateFile)
          /\ events' = <<StepEvent(0, 0, "started"), StepEvent(0, 0, "done")>>]_vars

\* a workflow of three steps built before and not changed since: the three steps
\* are skipped and execute_plan has returned true
C36_Witness ==
    /\ pc = "returned"
    /\ outcome = "true"
    /\ plan.steps_to_run = <<>>
    /\ Len(plan.steps_to_skip) = 3
    /\ stateFile.kind = "ok"
    /\ saves = 0
    /\ spawned = {}
    /\ events = <<StepEvent(0, 0, "started"), StepEvent(0, 0, "done")>>


(***************************************************************************)
(* Specification of the build behaviours in which the dispatching process  *)
(* goes on, the workers of the pool take the tasks that wait (Popen        *)
(* returns or raises), and every command that was spawned exits.           *)
(***************************************************************************)
\* the steps of execute and execute_plan in the dispatching process
DispatcherStep ==
    \/ SkipGeneration
    \/ DispatchGeneration
    \/ PoolError
    \/ JoinGeneration
    \/ LoopDone
    \/ SaveState
    \/ SaveStateFails

Fairness ==
    /\ WF_vars(DispatcherStep)
    /\ \A n \in Nodes : WF_vars(WorkerSpawn(n) \/ WorkerSpawnFails(n))
    /\ \A n \in Nodes : WF_vars(WorkerReturn(n))

SpecLive == Spec /\ Fairness

\* execute_plan is in its loop or about to save
InExecutePlan == pc \in {"dispatch", "pool", "save"}

(***************************************************************************)
(* C37 - Termination of a build, as stated.  When every spawned command    *)
(* exits, execute_plan returns true or false.                              *)
(***************************************************************************)
C37_TerminationAsStated ==
    InExecutePlan ~> (pc = "returned" /\ outcome \in {"true", "false"})

(***************************************************************************)
(* C37 - Termination of a build, amended.  When every spawned command      *)
(* exits, execute_plan ends: it returns true or false, or raises the       *)
(* exception of the pool (MAX_WORKERS <= 0) or of save_state (IOError).    *)
(* In its loop the index of the generation never goes back and moves on by *)
(* one when a generation was integrated, so a generation                   *)
(* is dispatched at most once.  As long as a command has not exited,       *)
(* execute_plan is in the pool of the same generation: it has not          *)
(* returned and no later generation has started.                           *)
(***************************************************************************)
C37_Termination ==
    /\ InExecutePlan ~> (pc = "returned" /\ outcome \in {"true", "false", "exception"})
    /\ [][/\ InExecutePlan =>
                /\ gen' >= gen
                /\ (pc = "dispatch" /\ pc' = "pool") =>
                      (gen' = gen /\ tasks' = TasksThisGeneration(plan, gen))
                /\ (pc = "pool" /\ pc' = "dispatch") => gen' = gen + 1
                /\ pc' = "returned" => outcome' \in {"true", "false", "exception"}
           /\ \A n \in Nodes :
                (wpc[n] = "child" /\ wpc'[n] = "child") =>
                    (pc' = "pool" /\ gen' = gen /\ outcome' = "running")]_vars

\* execute_plan has returned true after two generations, the first with two
\* commands that ran at the same time
C37_Witness ==
    /\ pc = "returned"
    /\ outcome = "true"
    /\ PoolSize(cfg) = 2
    /\ Len(plan.execution_graph.generations) = 2
    /\ Len(plan.execution_graph.generations[1]) = 2
    /\ spawned = Nodes
    /\ saves = 1


(***************************************************************************)
(* LiteBuildController (lite_build_controller.py).  The handlers of the    *)
(* controller run one at a time in the thread the controller lives in:     *)
(* start_build is called from the GUI, the signals finished and error of   *)
(* a worker (emitted in the worker's thread) and the deleteLater of a      *)
(* QThread (connected to its finished signal, emitted in that thread)      *)
(* reach the controller through the event queue of its thread, in the      *)
(* order they were posted.  A QThread object is "running" from start()     *)
(* on, "quit" once quit() was called while its event loop still runs,      *)
(* "finishing" once it has emitted finished(), "finished" when             *)
(* isRunning() has become false, and "deleted" when the object is gone.    *)
(***************************************************************************)
Finished(t) == [sig |-> "finished", id |-> t]
Error(t) == [sig |-> "error", id |-> t]
DeleteLater(t) == [sig |-> "deleteLater", id |-> t]

\* QThread.isRunning()
isRunning(t) == qthread[t] \in {"running", "quit", "finishing"}

\* LiteBuildController.is_running (25-27)
is_running == _thread # 0 /\ isRunning(_thread)

\* the posted events without those for the object t (events for a deleted
\* QObject are removed from the queue)
WithoutEventsFor(q, t) == SelectSeq(q, LAMBDA e : e # DeleteLater(t))

\* the QThread objects that execute a worker
RunningThreads == {t \in ThreadIds : isRunning(t)}

\* start_build while a build is in progress (41-43)
StartBuildRefused ==
    /\ is_running
    /\ emitted' = <<"log_received">>
    /\ UNCHANGED <<_thread, _worker, qthread, qworker, posted>>
    /\ UNCHANGED <<grpVars, engineVars>>

\* start_build when the configuration file does not exist (45-47)
StartBuildNoConfig ==
    /\ ~is_running
    /\ emitted' = <<"build_error">>
    /\ UNCHANGED <<_thread, _worker, qthread, qworker, posted>>
    /\ UNCHANGED <<grpVars, engineVars>>

\* the objects after the assignments of lines 51-52 and thread.start() for the
\* new objects t, the objects _thread and _worker referred to being released
Started(t, old) ==
    /\ _thread' = t
    /\ _worker' = t
    /\ qthread' = [qthread EXCEPT ![t] = "running", ![old] = "deleted"]
    /\ qworker' = [qworker EXCEPT ![t] = "created"]
    /\ posted' = WithoutEventsFor(posted, old)

\* start_build without the test of is_running
StartBuildUnguarded ==
    /\ \E t \in ThreadIds :
          /\ qthread[t] = "none"
          /\ qworker[t] = "none"
          /\ IF _thread = 0
             THEN /\ _thread' = t
                  /\ _worker' = t
                  /\ qthread' = [qthread EXCEPT ![t] = "running"]
                  /\ qworker' = [qworker EXCEPT ![t] = "created"]
                  /\ posted' = posted
             ELSE Started(t, _thread)
    /\ emitted' = <<"build_started">>
    /\ UNCHANGED <<grpVars, engineVars>>

\* start_build starts a build (49-65): build_started, a new QThread and a new
\* worker, moved to the thread and run when the thread has started.  When
\* _thread still refers to a QThread that has finished and is not deleted
\* yet, the assignment of line 51 releases the last reference to that object
\* and the object is deleted with it; here its destroyed signal does not
\* reach _on_thread_destroyed (StartBuildRaises is the other case).
StartBuild ==
    /\ ~is_running
    /\ \E t \in ThreadIds :
          /\ qthread[t] = "none"
          /\ qworker[t] = "none"
          /\ IF _thread = 0
             THEN /\ _thread' = t
                  /\ _worker' = t
                  /\ qthread' = [qthread EXCEPT ![t] = "running"]
                  /\ qworker' = [qworker EXCEPT ![t] = "created"]
                  /\ posted' = posted
             ELSE Started(t, _thread)
    /\ emitted' = <<"build_started">>
    /\ UNCHANGED <<grpVars, engineVars>>

\* start_build when _thread refers to a finished QThread and the destroyed
\* signal of that object, deleted by the assignment of line 51, runs
\* _on_thread_destroyed (101-107) inside the assignment: _thread is None
\* again, the new QThread is released unstarted, line 52 makes the worker and
\* line 60 raises AttributeError
StartBuildRaises ==
    /\ ~is_running
    /\ _thread # 0
    /\ \E t \in ThreadIds :
          /\ qthread[t] = "none"
          /\ qworker[t] = "none"
          /\ _thread' = 0
          /\ _worker' = t
          /\ qthread' = [qthread EXCEPT ![t] = "deleted", ![_thread] = "deleted"]
          /\ qworker' = [qworker EXCEPT ![t] = "created"]
          /\ posted' = WithoutEventsFor(posted, _thread)
    /\ emitted' = <<"build_started">>
    /\ UNCHANGED <<grpVars, engineVars>>

\* the thread has started: worker.run is called in it (60)
WorkerRun(t) ==
    /\ qthread[t] = "running"
    /\ qworker[t] = "created"
    /\ qworker' = [qworker EXCEPT ![t] = "running"]
    /\ UNCHANGED <<_thread, _worker, qthread, posted, emitted>>
    /\ UNCHANGED <<grpVars, engineVars>>

\* worker.run ends: it has emitted finished, or error (build_workers.py 106,
\* 112, 224, 230); the signal is queued for the controller (56-57)
WorkerEnds(t) ==
    /\ qworker[t] = "running"
    /\ qworker' = [qworker EXCEPT ![t] = "returned"]
    /\ \E e \in {Finished(t), Error(t)} : posted' = Append(posted, e)
    /\ UNCHANGED <<_thread, _worker, qthread, emitted>>
    /\ UNCHANGED <<grpVars, engineVars>>

\* _cleanup (93-99): quit() for the thread _thread refers to, if it runs
Cleanup(threads) ==
    IF is_running /\ threads[_thread] = "running"
    THEN [threads EXCEPT ![_thread] = "quit"]
    ELSE threads

\* _on_build_complete (81-84)
OnBuildComplete ==
    /\ posted # <<>>
    /\ Head(posted).sig = "finished"
    /\ posted' = Tail(posted)
    /\ emitted' = <<"build_finished">>
    /\ qthread' = Cleanup(qthread)
    /\ UNCHANGED <<_thread, _worker, qworker>>
    /\ UNCHANGED <<grpVars, engineVars>>

\* _on_build_error (86-91)
OnBuildError ==
    /\ posted # <<>>
    /\ Head(posted).sig = "error"
    /\ posted' = Tail(posted)
    /\ emitted' = <<"build_error", "build_finished">>
    /\ qthread' = Cleanup(qthread)
    /\ UNCHANGED <<_thread, _worker, qworker>>
    /\ UNCHANGED <<grpVars, engineVars>>

\* the event loop of the thread has left: the thread emits finished(), which
\* deletes the worker (61) and posts the deleteLater of the thread (62)
ThreadEmitsFinished(t) ==
    /\ qthread[t] = "quit"
    /\ qthread' = [qthread EXCEPT ![t] = "finishing"]
    /\ qworker' = [qworker EXCEPT ![t] = "deleted"]
    /\ posted' = Append(posted, DeleteLater(t))
    /\ UNCHANGED <<_thread, _worker, emitted>>
    /\ UNCHANGED <<grpVars, engineVars>>

\* the thread has ended: isRunning() is false from now on
ThreadStops(t) ==
    /\ qthread[t] = "finishing"
    /\ qthread' = [qthread EXCEPT ![t] = "finished"]
    /\ UNCHANGED <<_thread, _worker, qworker, posted, emitted>>
    /\ UNCHANGED <<grpVars, engineVars>>

\* the deferred deletion of a QThread (62), which waits for the thread to
\* end; its destroyed signal runs _on_thread_destroyed (63, 101-107)
OnThreadDestroyed ==
    /\ posted # <<>>
    /\ Head(posted).sig = "deleteLater"
    /\ qthread[Head(posted).id] = "finished"
    /\ posted' = Tail(posted)
    /\ qthread' = [qthread EXCEPT ![Head(posted).id] = "deleted"]
    /\ _thread' = 0
    /\ _worker' = 0
    /\ UNCHANGED <<qworker, emitted>>
    /\ UNCHANGED <<grpVars, engineVars>>

InitController ==
    /\ cfg = Config(WfChain, NoFinal, 1, {})
    /\ exists = [f \in Files |-> f \in Sources]
    /\ mtime = [f \in Files |-> 0]
    /\ clock = 1
    /\ stateFile = StateFile("missing", EmptyState)
    /\ ExecutorIdle
    /\ ControllerIdle
    /\ GroupWorkerIdle
    /\ GeneratorIdle
    /\ prev_ok = FALSE
    /\ buildsLeft = 0

NextController ==
    \/ StartBuildRefused
    \/ StartBuildNoConfig
    \/ StartBuild
    \/ StartBuildRaises
    \/ \E t \in ThreadIds : WorkerRun(t)
    \/ \E t \in ThreadIds : WorkerEnds(t)
    \/ OnBuildComplete
    \/ OnBuildError
    \/ \E t \in ThreadIds : ThreadEmitsFinished(t)
    \/ \E t \in ThreadIds : ThreadStops(t)
    \/ OnThreadDestroyed

SpecController == InitController /\ [][NextController]_vars

\* a step taken while is_running() is true makes no QThread and no worker,
\* keeps _thread and _worker, and emits neither build_started nor a
\* build_error alone
KeepsTheBuild ==
    is_running =>
        /\ _thread' = _thread
        /\ _worker' = _worker
        /\ \A t \in ThreadIds : qthread[t] = "none" => qthread'[t] = "none"
        /\ \A t \in ThreadIds : qworker[t] = "none" => qworker'[t] = "none"
        /\ emitted' # emitted =>
              emitted' \in {<<"log_received">>, <<"build_finished">>,
                            <<"build_error", "build_finished">>}

\* C38 (single build at a time): while is_running() is true, start_build
\* makes no thread and no worker, leaves _thread and _worker as they are and
\* emits only the log message, never build_started; and at every moment at
\* most one QThread of the controller executes a worker, which is the thread
\* _thread refers to, whatever the sequence of start_build calls and of
\* build completions.
C38_SingleBuild ==
    /\ [](Cardinality(RunningThreads) <= 1 /\ RunningThreads \subseteq {_thread})
    /\ [][KeepsTheBuild]_vars

\* a start_build call was refused during a build that was started after an
\* earlier build had completed and its thread was deleted
C38_Witness ==
    /\ is_running
    /\ emitted = <<"log_received">>
    /\ \E t \in ThreadIds : t # _thread /\ qthread[t] = "deleted"
    /\ qworker[_thread] = "running"


(***************************************************************************)
(* BuildGroupWorker.run (build_workers.py 141-233).  The configuration is  *)
(* what run reads from it: whether BuildEngine.from_file succeeds, whether *)
(* the group is in PROFILE_GROUPS, its list of profiles and whether        *)
(* DEFAULT_WORKFLOW_STEP is set.  signals holds what the worker emits on   *)
(* status_signal, finished and error, in order; the build thread of a      *)
(* profile relays the "step" events of BuildEngine.execute while it lives. *)
(***************************************************************************)
\* "step" events one build thread relays at most
MaxStepEvents == 1

ProfileLists ==
    {<<>>, <<"p1">>, <<"p1", "p2">>, <<"p2", "p1">>, <<"p1", "p2", "p3">>,
     <<"p3", "p1", "p2">>}

Groups ==
    [loads : BOOLEAN, found : BOOLEAN, profiles_to_run : ProfileLists,
     step_name : BOOLEAN]

StatusSignal(type, current, total, status) ==
    [sig |-> "status_signal", type |-> type, current |-> current, total |-> total,
     status |-> status]
FinishedSignal == [sig |-> "finished", type |-> "", current |-> 0, total |-> 0, status |-> ""]
ErrorSignal == [sig |-> "error", type |-> "", current |-> 0, total |-> 0, status |-> ""]

total_profiles == Len(group.profiles_to_run)

\* the handler of an exception of run (226-233)
CriticalError == <<ErrorSignal, StatusSignal("profile", 0, 0, "error")>>

\* run begins: the configuration is loaded and the group is found (145-158)
GroupRunStarts ==
    /\ gpc = "idle"
    /\ group.loads /\ group.found
    /\ gpc' = "next"
    /\ current_profile_num' = 0
    /\ UNCHANGED <<group, build_thread, signals>>
    /\ UNCHANGED <<ctlVars, engineVars>>

\* run begins and BuildEngine.from_file raises, or the group is not in
\* PROFILE_GROUPS (147-152, 226-233)
GroupRunRaises ==
    /\ gpc = "idle"
    /\ ~(group.loads /\ group.found)
    /\ gpc' = "failed"
    /\ signals' = signals \o CriticalError
    /\ UNCHANGED <<group, current_profile_num, build_thread>>
    /\ UNCHANGED <<ctlVars, engineVars>>

\* an iteration of the loop begins (161-192): "started" is emitted and the
\* build thread of the profile is started
ProfileStarts ==
    /\ gpc = "next"
    /\ current_profile_num < total_profiles
    /\ group.step_name
    /\ current_profile_num' = current_profile_num + 1
    /\ signals' = Append(signals, StatusSignal("profile", current_profile_num', total_profiles, "started"))
    /\ build_thread' = [build_thread EXCEPT ![current_profile_num'] = [state |-> "alive", profile_name |-> group.profiles_to_run[current_profile_num']]]
    /\ gpc' = "tail"
    /\ UNCHANGED group
    /\ UNCHANGED <<ctlVars, engineVars>>

\* an iteration begins and DEFAULT_WORKFLOW_STEP is not set (161-183, 226-233)
ProfileRaises ==
    /\ gpc = "next"
    /\ current_profile_num < total_profiles
    /\ ~group.step_name
    /\ current_profile_num' = current_profile_num + 1
    /\ signals' = Append(signals, StatusSignal("profile", current_profile_num', total_profiles, "started")) \o CriticalError
    /\ gpc' = "failed"
    /\ UNCHANGED <<group, build_thread>>
    /\ UNCHANGED <<ctlVars, engineVars>>

StepEventsOf(sigs) == SelectSeq(sigs, LAMBDA e : e.type = "step")

\* the build thread calls status_callback, which _relay_step_status passes
\* to status_signal (133-139, 190)
RelayStepStatus(i) ==
    /\ build_thread[i].state = "alive"
    /\ Len(StepEventsOf(signals)) < MaxStepEvents * i
    /\ \E status \in {"started", "done", "error"} :
          signals' = Append(signals, StatusSignal("step", 0, 0, status))
    /\ UNCHANGED <<group, gpc, current_profile_num, build_thread>>
    /\ UNCHANGED <<ctlVars, engineVars>>

\* profile_engine.execute returns or raises in the build thread: the thread
\* is not alive any more
BuildThreadEnds(i) ==
    /\ build_thread[i].state = "alive"
    /\ build_thread' = [build_thread EXCEPT ![i].state = "terminated"]
    /\ UNCHANGED <<group, gpc, current_profile_num, signals>>
    /\ UNCHANGED <<ctlVars, engineVars>>

\* the end of an iteration that does not wait for the build thread
ProfileDoneAtOnce ==
    /\ gpc = "tail"
    /\ signals' = Append(signals, StatusSignal("profile", current_profile_num, total_profiles, "done"))
    /\ gpc' = "next"
    /\ UNCHANGED <<group, current_profile_num, build_thread>>
    /\ UNCHANGED <<ctlVars, engineVars>>

\* the loop `while build_thread.is_alive()` has ended and join() has
\* returned: "done" is emitted (199-220)
ProfileDone ==
    /\ gpc = "tail"
    /\ build_thread[current_profile_num].state = "terminated"
    /\ signals' = Append(signals, StatusSignal("profile", current_profile_num, total_profiles, "done"))
    /\ gpc' = "next"
    /\ UNCHANGED <<group, current_profile_num, build_thread>>
    /\ UNCHANGED <<ctlVars, engineVars>>

\* the loop has ended: finished is emitted (222-224)
GroupFinished ==
    /\ gpc = "next"
    /\ current_profile_num = total_profiles
    /\ signals' = Append(signals, FinishedSignal)
    /\ gpc' = "finished"
    /\ UNCHANGED <<group, current_profile_num, build_thread>>
    /\ UNCHANGED <<ctlVars, engineVars>>

InitGroup ==
    /\ cfg = Config(WfChain, NoFinal, 1, {})
    /\ exists = [f \in Files |-> f \in Sources]
    /\ mtime = [f \in Files |-> 0]
    /\ clock = 1
    /\ stateFile = StateFile("missing", EmptyState)
    /\ ExecutorIdle
    /\ ControllerIdle
    /\ GeneratorIdle
    /\ prev_ok = FALSE
    /\ buildsLeft = 0
    /\ group \in Groups
    /\ gpc = "idle"
    /\ current_profile_num = 0
    /\ build_thread = [i \in 1..MaxProfiles |-> NoBuildThread]
    /\ signals = <<>>

NextGroup ==
    \/ GroupRunStarts
    \/ GroupRunRaises
    \/ ProfileStarts
    \/ ProfileRaises
    \/ \E i \in 1..MaxProfiles : RelayStepStatus(i)
    \/ \E i \in 1..MaxProfiles : BuildThreadEnds(i)
    \/ ProfileDone
    \/ GroupFinished

SpecGroup == InitGroup /\ [][NextGroup]_vars

\* the "profile" events with status started or done that were emitted
ProfileEvents ==
    SelectSeq(signals, LAMBDA e : e.type = "profile" /\ e.status \in {"started", "done"})

\* the "profile" events of a group of total profiles that is built to its end
RECURSIVE ExpectedProfileEvents(_, _)
ExpectedProfileEvents(i, total) ==
    IF i > total THEN <<>>
    ELSE <<StatusSignal("profile", i, total, "started"), StatusSignal("profile", i, total, "done")>>
            \o ExpectedProfileEvents(i + 1, total)

IsPrefix(a, b) == Len(a) <= Len(b) /\ SubSeq(b, 1, Len(a)) = a

=============================================================================
